---- MODULE Spec2Model ----
(***************************************************************************)
(* Model of the bounded-concurrency dispatch engine of                     *)
(* form-data-integration:                                                  *)
(*   - QueueService             (src/src/services/queueService.ts)         *)
(*   - WorkerPool               (src/src/services/workerPool.ts)           *)
(*   - ParallelProcessingService (src/src/types/index.ts, lines 238-310)   *)
(*   - DataProcessor            (src/unnamed/part_000)                     *)
(*                                                                         *)
(* JavaScript runs every handler to its next `await` without interruption, *)
(* so one action of the model is one synchronous run of a call between two *)
(* awaits.  Calls interleave only at awaits.                               *)
(***************************************************************************)
EXTENDS Integers, Sequences, FiniteSets, TLC

\* ---------------------------------------------------------------- bounds
\* Number of concurrent ParallelProcessingService.processFormData calls.
NumCalls == 3
\* Largest priority a caller passes.
MaxPriority == 2
\* Largest maxConcurrent / maxWorkers the constructor is given.
MaxCapacity == 2
\* Number of direct QueueService.getNextItem() calls by an outside caller.
MaxDirectCalls == 2

\* Number of re-enqueues that QueueService's retry timers may make in all.
MaxRequeues == 4

\* Largest formDataArray given to processBatch, and largest options.batchSize
\* below the default.
MaxSubmissions == 4
MaxBatchSize == 2

\* Largest number of fieldValidation rules of an endpoint in the webhook variant.
MaxRules == 2

\* Number of steps of SecretTickMs that the SecretsService clock makes.
MaxSecretTicks == 3

\* Largest number of endpoints enabled for the customer of a DataProcessor call.
NumEndpoints == 3
\* Largest options.maxRetries given to the DataProcessor constructor.
MaxConfiguredRetries == 3

Calls == 1..NumCalls
\* Every run of enqueue has a context: the processFormData calls, then the
\* callbacks of the retry timers of processNext.
Contexts == 1..(NumCalls + MaxRequeues)
Endpoints == 1..NumEndpoints
Priorities == 1..MaxPriority
CustomerIDs == {"CUST001", "CUST002"}

VARIABLES
    maxConcurrent,  \* QueueService.maxConcurrent (constructor argument)
    maxWorkers,     \* WorkerPool.maxWorkers (constructor argument)
    queue,          \* QueueService.queue: sequence of QueueItem
    processing,     \* QueueService.processing: set of processingId strings
    workers,        \* WorkerPool.workers: workers[i] is the busy flag of worker id i-1
    now,            \* Date.now(), counted in the milliseconds that matter (see Tick)
    pc,             \* pc[t]: where context t is suspended
    cur,            \* cur[t]: `item` of processNext / `nextItem` of the drain loop
    pid,            \* pid[t]: `processingId` of processNext
    slot,           \* slot[t]: index of `availableWorker` of WorkerPool.process
    enqCount,       \* history: number of enqueue calls so far
    outcome,        \* history: outcome[d] of submission d
    nDirect,        \* history: number of direct getNextItem() calls
    lastReturned,   \* history: value returned by the last direct getNextItem()
    retryTimers,    \* pending setTimeout callbacks of processNext, line 57
    origin,         \* origin[t]: the submission that context t enqueued, 0 before
    thrown,         \* thrown[t]: processNext of context t has rethrown (line 62)
    status,         \* history: what getProcessingStatus returned last
    validationIssues, \* history: validationIssues[d]: validateData listed issues
                    \* for submission d
    claimedBy       \* history: claimedBy[d]: the methods that shifted an item of
                    \* submission d out of the queue, in order

VARIABLES
    optionsMaxRetries,  \* DataProcessor.options.maxRetries
    clock,              \* Date.now() of the DataProcessor model, in ms
    lastRequestTime,    \* DataProcessor.lastRequestTime
    nextToStart,        \* next endpoint of the map of processFormData, line 45
    formData,           \* formData[e]: what the submission is for endpoint e
    rpc,                \* rpc[e]: where processEndpoint for endpoint e is suspended
    retryCount,         \* retryCount[e]: `retryCount` of processEndpoint
    deadline,           \* deadline[e]: when the timer that run e waits for fires
    attempts,           \* history: number of sendToEndpoint calls of run e
    deliveryFailures,   \* history: number of failed sendToEndpoint calls of run e
    retries,            \* history: number of retries run e has started
    backoffStart,       \* history: when the latest backoff wait of run e began
    retryStart,         \* history: when the latest retry of run e started
    requestStart,       \* history: when the latest sendToEndpoint call of run e began
    lastError,          \* lastError[e]: `error` of the catch block of run e, line 88
    rejection,          \* what the promise of processFormData is rejected with
                        \* because of an endpoint run, NotRejected before
    heap,               \* the objects: heap[0] is `formData`, heap[e] `payload` of run e
    additionalFields,   \* endpointSpecificConfig[name].additionalFields, per endpoint
    fieldMappings,      \* endpointSpecificConfig[name].fieldMappings, per endpoint
    request,            \* history: the latest fetch call of run e
    payloads,           \* history: the first and the latest payload that
                        \* transformDataForEndpoint returned in run e
    customerRegistered, \* whether customerConfigs holds the customerId of the call
    enabledEndpoints,   \* customerConfig.enabledEndpoints.length of that customer
    lookupError         \* category of the error processFormData threw at the lookup

VARIABLES
    encryptionKey,  \* SecretsService.encryptionKey
    secrets,        \* SecretsService.secrets: Map from key to { value, expiresAt }
    secretsNow,     \* Date.now() of the SecretsService model, in ms
    stored,         \* history: value, time and ttl of the latest setSecret of a
                    \* key, None before and after a deleteSecret
    got             \* history: key and result of getSecret, if it was the last call

VARIABLES
    optionsBatchSize,   \* DataProcessor.options.batchSize
    arrayLength,        \* formDataArray.length of the processBatch call
    batchStart,         \* i of the loop of processBatch
    calls,              \* calls[s]: the processFormData call for formDataArray[s - 1]
    bpc,                \* where the processBatch call is
    batchRejection      \* what the promise of processBatch is rejected with

batchVars == <<optionsBatchSize, arrayLength, batchStart, calls, bpc, batchRejection>>

VARIABLES
    configFound,        \* whether customerConfigs has the customerId of the call
    endpointSpecificConfig, \* customerConfig.endpointSpecificConfig
    webhookFormData,    \* formData of the call: the value of each field
    wpc,                \* where the processFormData call of the webhook variant is
    posts,              \* history: number of axios.post calls made
    webhookError        \* what the call threw, NotRejected if nothing

webhookVars == <<configFound, endpointSpecificConfig, webhookFormData, wpc, posts,
                 webhookError>>

lookupVars == <<customerRegistered, enabledEndpoints, lookupError>>

payloadVars == <<heap, additionalFields, fieldMappings, request, payloads>>

dpVars == <<optionsMaxRetries, clock, lastRequestTime, nextToStart, formData,
            rpc, retryCount, deadline, attempts, deliveryFailures, retries,
            backoffStart, retryStart, requestStart, lastError, rejection,
            lookupVars,
            payloadVars>>

retryVars == <<retryTimers, origin, thrown>>

queueVars == <<maxConcurrent, maxWorkers, queue, processing, workers, now, pc, cur,
               pid, slot, enqCount, outcome, nDirect, lastReturned, retryVars,
               status, validationIssues, claimedBy>>

secretVars == <<encryptionKey, secrets, secretsNow, stored, got>>

vars == <<queueVars, dpVars, secretVars, batchVars, webhookVars>>

\* `undefined`: no item.
NoItem == [data |-> 0, customerID |-> "", priority |-> 0]
NoPid == <<"", 0>>

\* ------------------------------------------------------------ QueueService

\* queue.findIndex(q => q.priority < priority), line 29; 1-based, 0 stands for -1.
FindIndexLowerOrEqual(q, priority) ==
    LET lower == {i \in 1..Len(q) : q[i].priority <= priority}
    IN IF lower = {} THEN 0 ELSE CHOOSE i \in lower : \A j \in lower : i <= j

FindIndex(q, priority) ==
    LET lower == {i \in 1..Len(q) : q[i].priority < priority}
    IN IF lower = {} THEN 0 ELSE CHOOSE i \in lower : \A j \in lower : i <= j

\* enqueue, lines 29-34: push when no lower-priority item exists, else splice.
InsertItem(q, item) ==
    LET insertIndex == FindIndex(q, item.priority)
    IN IF insertIndex = 0
       THEN Append(q, item)
       ELSE SubSeq(q, 1, insertIndex - 1) \o <<item>> \o SubSeq(q, insertIndex, Len(q))

\* queue.shift(): the removed element and the rest (undefined on an empty array);
\* for comparison, taking the last element, and leaving the element in place.
ShiftLast(q) ==
    IF Len(q) = 0 THEN [item |-> NoItem, rest |-> q]
    ELSE [item |-> q[Len(q)], rest |-> SubSeq(q, 1, Len(q) - 1)]

ShiftLeaves(q) ==
    IF Len(q) = 0 THEN [item |-> NoItem, rest |-> q]
    ELSE [item |-> Head(q), rest |-> q]

Shift(q) ==
    IF Len(q) = 0 THEN [item |-> NoItem, rest |-> q]
    ELSE [item |-> Head(q), rest |-> Tail(q)]

\* The history of claims after `method` has shifted `item` out of the queue.
Claimed(item, method) ==
    IF item = NoItem THEN claimedBy
    ELSE [claimedBy EXCEPT ![item.data] = Append(@, method)]

\* `${item.data.customerID}-${Date.now()}`
ProcessingId(item, time) == <<item.customerID, time>>

\* getQueueLength / getProcessingCount
GetQueueLength == Len(queue)
\* For comparison, a count that takes the queued items for in flight.
GetProcessingCountWithQueued == Cardinality(processing) + Len(queue)

GetProcessingCount == Cardinality(processing)

\* getQueueStatus, lines 90-95
GetQueueStatus ==
    [queueLength |-> GetQueueLength, processingCount |-> GetProcessingCount]

\* processing.size >= this.maxConcurrent: the test of line 43, and the negation
\* of the test of line 37.
AtCapacityOffByOne(proc) == Cardinality(proc) > maxConcurrent

AtCapacity(proc) == Cardinality(proc) >= maxConcurrent

\* The guard of processNext, line 43, on queue q and in-flight set proc.
ProcessNextSkips(q, proc) == Len(q) = 0 \/ AtCapacity(proc)

\* processNext, lines 42-52, run by call t on queue q and in-flight set proc up to
\* its first await (processItem's timer).  When the guard returns, control goes
\* back through enqueue to the drain loop of processFormData.
ProcessNext(t, q, proc) ==
    IF ProcessNextSkips(q, proc)
    THEN /\ queue' = q
         /\ processing' = proc
         /\ pc' = [pc EXCEPT ![t] = "drain"]
         /\ cur' = [cur EXCEPT ![t] = NoItem]
         /\ pid' = [pid EXCEPT ![t] = NoPid]
         /\ UNCHANGED claimedBy
    ELSE LET s == Shift(q)
             id == ProcessingId(s.item, now)
         IN /\ queue' = s.rest
            /\ processing' = proc \cup {id}
            /\ pc' = [pc EXCEPT ![t] = "processItem"]
            /\ cur' = [cur EXCEPT ![t] = s.item]
            /\ pid' = [pid EXCEPT ![t] = id]
            /\ claimedBy' = Claimed(s.item, "processNext")

\* The body of QueueService.enqueue, lines 28-39, run by context t for `item`.
\* pc "drain": enqueue has returned to its caller, or thrown into it.
EnqueueItem(t, item) ==
    LET q1 == InsertItem(queue, item)
    IN IF ~AtCapacity(processing)
       THEN ProcessNext(t, q1, processing)
       ELSE /\ queue' = q1
            /\ pc' = [pc EXCEPT ![t] = "drain"]
            /\ UNCHANGED <<processing, cur, pid, claimedBy>>

\* QueueService.enqueue, lines 20-40, as called by processFormData at line 264:
\* call t submits data of customer cust with priority p.  Contexts are numbered
\* in the order in which they call enqueue, so item.data, the submission of call
\* t, is also the item's place in the order of enqueueing.
Enqueue(t, cust, p) ==
    /\ pc[t] = "idle"
    /\ t = enqCount + 1
    /\ EnqueueItem(t, [data |-> t, customerID |-> cust, priority |-> p])
    /\ enqCount' = enqCount + 1
    /\ origin' = [origin EXCEPT ![t] = t]
    /\ UNCHANGED <<retryTimers, thrown>>
    /\ UNCHANGED dpVars
    /\ UNCHANGED status
    /\ UNCHANGED validationIssues
    /\ UNCHANGED secretVars
    /\ UNCHANGED batchVars
    /\ UNCHANGED webhookVars
    /\ UNCHANGED <<maxConcurrent, maxWorkers, workers, now, slot, outcome,
                   nDirect, lastReturned>>

\* The finally block of processNext, lines 64-70, in context t: deletes the
\* processing id and chains the next processNext.
FinallyNoChain(t) ==
    /\ processing' = processing \ {pid[t]}
    /\ pc' = [pc EXCEPT ![t] = "drain"]
    /\ cur' = [cur EXCEPT ![t] = NoItem]
    /\ pid' = [pid EXCEPT ![t] = NoPid]
    /\ UNCHANGED <<queue, claimedBy>>

Finally(t) ==
    LET proc1 == processing \ {pid[t]}
    IN IF Len(queue) > 0
       THEN ProcessNext(t, queue, proc1)
       ELSE /\ processing' = proc1
            /\ pc' = [pc EXCEPT ![t] = "drain"]
            /\ cur' = [cur EXCEPT ![t] = NoItem]
            /\ pid' = [pid EXCEPT ![t] = NoPid]
            /\ UNCHANGED <<queue, claimedBy>>

\* processItem's 1000 ms timer fires (line 79) and processItem returns.
ProcessItemDone(t) ==
    /\ pc[t] = "processItem"
    /\ outcome' = [outcome EXCEPT ![cur[t].data] = "processed"]
    /\ Finally(t)
    /\ UNCHANGED dpVars
    /\ UNCHANGED status
    /\ UNCHANGED validationIssues
    /\ UNCHANGED secretVars
    /\ UNCHANGED batchVars
    /\ UNCHANGED webhookVars
    /\ UNCHANGED retryVars
    /\ UNCHANGED <<maxConcurrent, maxWorkers, workers, now, slot, enqCount,
                   nDirect, lastReturned>>

\* private readonly MAX_RETRIES = 3, line 15
MAX_RETRIES == 3
\* private readonly RETRY_DELAY = 5000, line 16
RETRY_DELAY == 5000

\* A property that an object does not have reads as undefined.
Undefined == -1

\* What processItem can throw once it does more than its placeholder: an Error
\* that is or is not a ProcessingError, with or without a retryCount property.
Errors == [isProcessingError : BOOLEAN, retryCount : {Undefined} \cup 0..MAX_RETRIES]

\* a < b of JavaScript for a number or undefined a: undefined < b is false.
LessThan(a, b) == a # Undefined /\ a < b

\* The test of line 55.
ShouldRetry(error) ==
    error.isProcessingError /\ LessThan(error.retryCount, MAX_RETRIES)

\* item.retryCount: interface QueueItem, lines 5-10, has no such property.
RetryCounter(item) ==
    IF "retryCount" \in DOMAIN item THEN item.retryCount ELSE Undefined

\* The contexts that re-enqueued submission d.
Requeues(d) == {t \in Contexts : origin[t] = d /\ t # d}

\* processItem throws `error` in context t: the catch block of processNext,
\* lines 53-63, sets the retry timer or logs and rethrows; then the finally
\* block runs.  No more than MaxRequeues timers are set in all.
ProcessItemFails(t, error) ==
    /\ pc[t] = "processItem"
    /\ IF ShouldRetry(error)
       THEN /\ Cardinality(retryTimers)
                 + Cardinality({u \in Contexts : origin[u] \notin {0, u}}) < MaxRequeues
            /\ retryTimers' = retryTimers \cup {[item |-> cur[t], delay |-> RETRY_DELAY]}
            /\ outcome' = [outcome EXCEPT ![cur[t].data] = "retryScheduled"]
            /\ UNCHANGED thrown
       ELSE /\ outcome' = [outcome EXCEPT ![cur[t].data] = "failed"]
            /\ thrown' = [thrown EXCEPT ![t] = TRUE]
            /\ UNCHANGED retryTimers
    /\ Finally(t)
    /\ UNCHANGED origin
    /\ UNCHANGED dpVars
    /\ UNCHANGED status
    /\ UNCHANGED validationIssues
    /\ UNCHANGED secretVars
    /\ UNCHANGED batchVars
    /\ UNCHANGED webhookVars
    /\ UNCHANGED <<maxConcurrent, maxWorkers, workers, now, slot, enqCount,
                   nDirect, lastReturned>>

\* The retry timer r fires, lines 57-59: its callback calls enqueue with the
\* failed item's data and endpoint config and its priority + 1, in a context of
\* its own, and does not await it.
RetryTimerFires(r) ==
    LET t == enqCount + 1
    IN /\ r \in retryTimers
       /\ t \in Contexts
       /\ pc[t] = "idle"
       /\ EnqueueItem(t, [data |-> r.item.data, customerID |-> r.item.customerID,
                          priority |-> r.item.priority + 1])
       /\ retryTimers' = retryTimers \ {r}
       /\ enqCount' = enqCount + 1
       /\ origin' = [origin EXCEPT ![t] = r.item.data]
       /\ UNCHANGED thrown
       /\ UNCHANGED dpVars
       /\ UNCHANGED status
       /\ UNCHANGED validationIssues
       /\ UNCHANGED secretVars
       /\ UNCHANGED batchVars
       /\ UNCHANGED webhookVars
       /\ UNCHANGED <<maxConcurrent, maxWorkers, workers, now, slot, outcome,
                      nDirect, lastReturned>>

\* ------------------------------------------------------------- WorkerPool

\* initializeWorkers, lines 42-86: maxWorkers workers, none busy; for
\* comparison, a loop that stops one worker early.
InitializeWorkersOneShort(mw) == [w \in 1..(mw - 1) |-> FALSE]

InitializeWorkers(mw) == [w \in 1..mw |-> FALSE]

WorkerIds == DOMAIN workers

\* getAvailableWorkers / getBusyWorkers, lines 116-122
GetAvailableWorkers == Cardinality({w \in WorkerIds : ~workers[w]})
GetBusyWorkers == Cardinality({w \in WorkerIds : workers[w]})

\* getWorkerStatus, lines 124-130
GetWorkerStatus ==
    [available |-> GetAvailableWorkers, busy |-> GetBusyWorkers, total |-> maxWorkers]

\* workers.find(w => !w.busy): the first idle worker, 0 for undefined; for
\* comparison, the first worker when none is idle, and the first worker whether
\* idle or not.
FindFirstWorker(ws) == IF Len(ws) = 0 THEN 0 ELSE 1

FindAvailableWorkerOrFirst(ws) ==
    LET idle == {w \in 1..Len(ws) : ~ws[w]}
    IN IF idle = {} THEN 1 ELSE CHOOSE w \in idle : \A v \in idle : w <= v

FindAvailableWorker(ws) ==
    LET idle == {w \in 1..Len(ws) : ~ws[w]}
    IN IF idle = {} THEN 0 ELSE CHOOSE w \in idle : \A v \in idle : w <= v

PipelinePcs == {"validate", "transform", "enrich", "deliver"}

\* ---------------------------------------------- ParallelProcessingService

\* processFormData after `await enqueue`, in call t.  When enqueue threw, the
\* outer catch, lines 289-297, throws 'Parallel processing error' and the call
\* is over.  Else the drain loop's condition, line 267, and line 277: getNextItem
\* shifts the queue synchronously; the await suspends the call with nextItem in
\* hand.  pc "done": processFormData has resolved, or rejected when thrown[t].
DrainLoop(t) ==
    /\ pc[t] = "drain"
    /\ origin[t] = t
    /\ IF ~thrown[t] /\ GetQueueLength > 0 /\ GetAvailableWorkers > 0
       THEN LET s == Shift(queue)
            IN /\ queue' = s.rest
               /\ cur' = [cur EXCEPT ![t] = s.item]
               /\ pc' = [pc EXCEPT ![t] = "gotItem"]
               /\ claimedBy' = Claimed(s.item, "getNextItem")
       ELSE /\ pc' = [pc EXCEPT ![t] = "done"]
            /\ UNCHANGED <<queue, cur, claimedBy>>
    /\ UNCHANGED dpVars
    /\ UNCHANGED status
    /\ UNCHANGED validationIssues
    /\ UNCHANGED secretVars
    /\ UNCHANGED batchVars
    /\ UNCHANGED webhookVars
    /\ UNCHANGED retryVars
    /\ UNCHANGED <<maxConcurrent, maxWorkers, processing, workers, now, pid, slot,
                   enqCount, outcome, nDirect, lastReturned>>

\* WorkerPool.process, lines 95-110 of workerPool.ts, called by call t with the
\* submission of `item`: throws 'No available workers' or marks the first idle
\* worker busy and starts its pipeline, which suspends in validateData.  pc
\* "drain": process has returned to, or thrown into, its caller.
Process(t, item) ==
    LET w == FindAvailableWorker(workers)
    IN IF w = 0
       THEN /\ outcome' = [outcome EXCEPT ![item.data] = "noWorker"]
            /\ pc' = [pc EXCEPT ![t] = "drain"]
            /\ cur' = [cur EXCEPT ![t] = NoItem]
            /\ UNCHANGED <<workers, slot>>
       ELSE /\ workers' = [workers EXCEPT ![w] = TRUE]
            /\ slot' = [slot EXCEPT ![t] = w]
            /\ pc' = [pc EXCEPT ![t] = "validate"]
            /\ cur' = [cur EXCEPT ![t] = item]
            /\ UNCHANGED outcome

\* processFormData line 280: the drain loop hands nextItem to WorkerPool.process;
\* a ProcessingError is caught and logged at lines 281-286.
WorkerPoolProcess(t) ==
    /\ pc[t] = "gotItem"
    /\ Process(t, cur[t])
    /\ UNCHANGED dpVars
    /\ UNCHANGED status
    /\ UNCHANGED claimedBy
    /\ UNCHANGED validationIssues
    /\ UNCHANGED secretVars
    /\ UNCHANGED batchVars
    /\ UNCHANGED webhookVars
    /\ UNCHANGED retryVars
    /\ UNCHANGED <<maxConcurrent, maxWorkers, queue, processing, now, pid, enqCount,
                   nDirect, lastReturned>>

\* WorkerPool.process called directly by call t with its own submission.  Calls
\* are numbered in the order they are made.
DirectProcess(t) ==
    /\ pc[t] = "idle"
    /\ \A u \in Calls : u < t => pc[u] # "idle"
    /\ Process(t, [NoItem EXCEPT !.data = t])
    /\ UNCHANGED dpVars
    /\ UNCHANGED status
    /\ UNCHANGED claimedBy
    /\ UNCHANGED validationIssues
    /\ UNCHANGED secretVars
    /\ UNCHANGED batchVars
    /\ UNCHANGED webhookVars
    /\ UNCHANGED retryVars
    /\ UNCHANGED <<maxConcurrent, maxWorkers, queue, processing, now, pid, enqCount,
                   nDirect, lastReturned>>

\* The finally block of WorkerPool.process, lines 111-113: the worker is idle again.
ReleaseKeepsBusy(ws, w) == ws

Release(ws, w) == [ws EXCEPT ![w] = FALSE]

\* Worker.process ends with `result` for the item of call t: WorkerPool.process
\* releases the worker, and the drain loop (lines 280-287) goes round again.
PipelineEnds(t, result) ==
    /\ workers' = Release(workers, slot[t])
    /\ outcome' = [outcome EXCEPT ![cur[t].data] = result]
    /\ pc' = [pc EXCEPT ![t] = "drain"]
    /\ cur' = [cur EXCEPT ![t] = NoItem]
    /\ slot' = [slot EXCEPT ![t] = 0]

\* What openAIService.validateData returns, openAIService.ts lines 66-70:
\* isValid (undefined counts as false at line 51) and whether issues is non-empty.
\* The answers in which the two agree, and all answers.
ConsistentResults == {[isValid |-> TRUE, issues |-> FALSE],
                      [isValid |-> FALSE, issues |-> TRUE]}

ValidationResults == [isValid : BOOLEAN, issues : BOOLEAN]

\* Worker.process lines 50-60 for the answer `result` of validateData.
Validated(t, result) ==
    /\ validationIssues' = [validationIssues EXCEPT ![cur[t].data] = result.issues]
    /\ IF result.isValid
       THEN /\ pc' = [pc EXCEPT ![t] = "transform"]
            /\ UNCHANGED <<workers, outcome, cur, slot>>
       ELSE PipelineEnds(t, "validationFailed")

\* Worker.process lines 50-60: openAIService.validateData answers, or throws.
ValidateDone(t) ==
    /\ pc[t] = "validate"
    /\ \/ \E result \in ConsistentResults : Validated(t, result)
       \/ /\ PipelineEnds(t, "pipelineError")
          /\ UNCHANGED validationIssues
    /\ UNCHANGED dpVars
    /\ UNCHANGED status
    /\ UNCHANGED claimedBy
    /\ UNCHANGED secretVars
    /\ UNCHANGED batchVars
    /\ UNCHANGED webhookVars
    /\ UNCHANGED retryVars
    /\ UNCHANGED <<maxConcurrent, maxWorkers, queue, processing, now, pid, enqCount,
                   nDirect, lastReturned>>

\* The same with any answer of validateData.
ValidateDoneAnyAnswer(t) ==
    /\ pc[t] = "validate"
    /\ \/ \E result \in ValidationResults : Validated(t, result)
       \/ /\ PipelineEnds(t, "pipelineError")
          /\ UNCHANGED validationIssues
    /\ UNCHANGED dpVars
    /\ UNCHANGED status
    /\ UNCHANGED claimedBy
    /\ UNCHANGED secretVars
    /\ UNCHANGED batchVars
    /\ UNCHANGED webhookVars
    /\ UNCHANGED retryVars
    /\ UNCHANGED <<maxConcurrent, maxWorkers, queue, processing, now, pid, enqCount,
                   nDirect, lastReturned>>

\* Worker.process line 63: openAIService.transformData answers.
TransformDone(t) ==
    /\ pc[t] = "transform"
    /\ \/ /\ pc' = [pc EXCEPT ![t] = "enrich"]
          /\ UNCHANGED <<workers, outcome, cur, slot>>
       \/ PipelineEnds(t, "pipelineError")
    /\ UNCHANGED dpVars
    /\ UNCHANGED status
    /\ UNCHANGED claimedBy
    /\ UNCHANGED validationIssues
    /\ UNCHANGED secretVars
    /\ UNCHANGED batchVars
    /\ UNCHANGED webhookVars
    /\ UNCHANGED retryVars
    /\ UNCHANGED <<maxConcurrent, maxWorkers, queue, processing, now, pid, enqCount,
                   nDirect, lastReturned>>

\* Worker.process line 66: openAIService.enrichData answers.
EnrichDone(t) ==
    /\ pc[t] = "enrich"
    /\ \/ /\ pc' = [pc EXCEPT ![t] = "deliver"]
          /\ UNCHANGED <<workers, outcome, cur, slot>>
       \/ PipelineEnds(t, "enrichmentFailed")
    /\ UNCHANGED dpVars
    /\ UNCHANGED status
    /\ UNCHANGED claimedBy
    /\ UNCHANGED validationIssues
    /\ UNCHANGED secretVars
    /\ UNCHANGED batchVars
    /\ UNCHANGED webhookVars
    /\ UNCHANGED retryVars
    /\ UNCHANGED <<maxConcurrent, maxWorkers, queue, processing, now, pid, enqCount,
                   nDirect, lastReturned>>

\* Worker.process line 69: processTransformedData's 1000 ms timer fires.
DeliverDone(t) ==
    /\ pc[t] = "deliver"
    /\ PipelineEnds(t, "delivered")
    /\ UNCHANGED dpVars
    /\ UNCHANGED status
    /\ UNCHANGED claimedBy
    /\ UNCHANGED validationIssues
    /\ UNCHANGED secretVars
    /\ UNCHANGED batchVars
    /\ UNCHANGED webhookVars
    /\ UNCHANGED retryVars
    /\ UNCHANGED <<maxConcurrent, maxWorkers, queue, processing, now, pid, enqCount,
                   nDirect, lastReturned>>

\* The millisecond clock advances.  Date.now() is read only to build processing
\* ids, which can coincide only with the id of an item still in processItem, so
\* only the milliseconds in which such an item was claimed are counted.
Tick ==
    /\ \E t \in Contexts : pc[t] = "processItem" /\ pid[t][2] = now
    /\ now' = now + 1
    /\ UNCHANGED dpVars
    /\ UNCHANGED status
    /\ UNCHANGED claimedBy
    /\ UNCHANGED validationIssues
    /\ UNCHANGED secretVars
    /\ UNCHANGED batchVars
    /\ UNCHANGED webhookVars
    /\ UNCHANGED retryVars
    /\ UNCHANGED <<maxConcurrent, maxWorkers, queue, processing, workers, pc, cur,
                   pid, slot, enqCount, outcome, nDirect, lastReturned>>

\* QueueService.getNextItem, lines 97-99, called directly on the queue service.
GetNextItem ==
    /\ nDirect < MaxDirectCalls
    /\ LET s == Shift(queue)
       IN /\ queue' = s.rest
          /\ lastReturned' = s.item
          /\ claimedBy' = Claimed(s.item, "getNextItem")
    /\ nDirect' = nDirect + 1
    /\ UNCHANGED dpVars
    /\ UNCHANGED status
    /\ UNCHANGED validationIssues
    /\ UNCHANGED secretVars
    /\ UNCHANGED batchVars
    /\ UNCHANGED webhookVars
    /\ UNCHANGED retryVars
    /\ UNCHANGED <<maxConcurrent, maxWorkers, processing, workers, now, pc, cur,
                   pid, slot, enqCount, outcome>>

\* No getProcessingStatus call yet.
NoStatus == [queue |-> [queueLength |-> -1, processingCount |-> -1],
             workers |-> [available |-> -1, busy |-> -1, total |-> -1]]

\* ParallelProcessingService.getProcessingStatus, types/index.ts lines 301-309,
\* called by an outside caller between two steps of the service.  A call that
\* returns what the last call returned changes nothing.
GetProcessingStatus ==
    /\ status' = [queue |-> GetQueueStatus, workers |-> GetWorkerStatus]
    /\ status' # status
    /\ UNCHANGED claimedBy
    /\ UNCHANGED validationIssues
    /\ UNCHANGED dpVars
    /\ UNCHANGED secretVars
    /\ UNCHANGED batchVars
    /\ UNCHANGED webhookVars
    /\ UNCHANGED retryVars
    /\ UNCHANGED <<maxConcurrent, maxWorkers, queue, processing, workers, now, pc,
                   cur, pid, slot, enqCount, outcome, nDirect, lastReturned>>

\* ------------------------------------------------------------ DataProcessor
\* (src/unnamed/part_000)

\* this.options.maxRetries || 3, line 70
FallbackMaxRetries == 3
\* rateLimit: { requestsPerMinute: 60 }, line 33
RequestsPerMinute == 60
\* Math.pow(2, retryCount) * 1000, line 100
BackoffBaseMs == 1000

\* What a submission can be for an endpoint: it passes validateEndpointData and
\* transformDataForEndpoint, it fails validation, or a field transformer throws.
FormDataKinds == {"valid", "invalid", "untransformable"}

\* const maxRetries = this.options.maxRetries || 3, line 70 (0 is falsy).
MaxRetries == IF optionsMaxRetries = 0 THEN FallbackMaxRetries ELSE optionsMaxRetries

\* minTimeBetweenRequests, line 110
MinTimeBetweenRequests == (60 * 1000) \div RequestsPerMinute

\* The DataProcessor clock advances by at most one rate-limit interval in a step.
TimeStepMs == MinTimeBetweenRequests

\* options.timeoutMs as given to the constructor: one step of the clock, so that a
\* fetch answers at once, answers a step later, or is aborted.
ConfiguredTimeoutMs == TimeStepMs

RECURSIVE Pow2(_)
Pow2(n) == IF n = 0 THEN 1 ELSE 2 * Pow2(n - 1)

\* The backoff wait of line 100, after retryCount was incremented to n.
BackoffDelayBeforeIncrement(n) == Pow2(n - 1) * BackoffBaseMs

BackoffDelay(n) == Pow2(n) * BackoffBaseMs

\* Runs of processEndpoint that wait for a timer or for a fetch.
Waiting == {e \in Endpoints : rpc[e] \in {"rateWait", "backoff", "fetch"}}

\* retryCount > maxRetries, line 90, with retryCount already incremented to n.
RetriesExhaustedOneEarly(n) == n >= MaxRetries

RetriesExhausted(n) == n > MaxRetries

\* What sendToEndpoint throws when the fetch was aborted, lines 208-210, with
\* the AbortError passed on as it is for comparison.
ErrorOfAbortPassedOn == "AbortError"

ErrorOfAbort == "Request timed out"

\* The category of new ProcessingError(error, context), errorHandler lines 35-43:
\* context.category || ErrorCategory.UNKNOWN.
Category(context) ==
    IF "category" \in DOMAIN context THEN context.category ELSE "UNKNOWN"

\* new ProcessingError(originalError, context), errorHandler lines 31-43.
ProcessingError(originalError, context) ==
    [name |-> "ProcessingError", originalError |-> originalError,
     category |-> Category(context)]

NotRejected == [name |-> "none"]

\* The catch block of processEndpoint, lines 88-101, in run e, with `error`.
\* At line 97 the promise of processEndpoint is rejected with the error and
\* with it the Promise.all of line 44, if it is its first rejection: line 50
\* wraps the error and rejects the promise of processFormData.
Catch(e, error) ==
    LET n == retryCount[e] + 1
    IN /\ retryCount' = [retryCount EXCEPT ![e] = n]
       /\ lastError' = [lastError EXCEPT ![e] = error]
       /\ rejection' = IF RetriesExhausted(n) /\ rejection = NotRejected
                       THEN ProcessingError(error, [customerId |-> "CUST001"])
                       ELSE rejection
       /\ IF RetriesExhausted(n)
          THEN /\ rpc' = [rpc EXCEPT ![e] = "rejected"]
               /\ UNCHANGED <<deadline, backoffStart>>
          ELSE /\ rpc' = [rpc EXCEPT ![e] = "backoff"]
               /\ deadline' = [deadline EXCEPT ![e] = clock + BackoffDelay(n)]
               /\ backoffStart' = [backoffStart EXCEPT ![e] = clock]

\* ---- payloads (transformDataForEndpoint and sendToEndpoint)

\* The object that `formData` refers to, and the object that transformDataForEndpoint
\* creates at line 141 for run e; for comparison, a payload kept in the formData
\* object itself, and one kept in the additionalFields object of the config.
FormDataRef == 0

PayloadRefAliased(e) == FormDataRef

PayloadRefOfConfig(e) == -e

PayloadRef(e) == e

\* The object that endpointSpecificConfig[name].additionalFields of the
\* customer's config refers to, for endpoint e.
ConfigRef(e) == -e

\* The submitted FormData: the fields the endpoints below require.  A value v
\* is written <<v>>, and an object value as the tuple of its properties.
Submission ==
    [customerID |-> <<"12345">>, marketingOptIn |-> <<"true">>,
     productCategory |-> <<"Loans">>]

EmptyObject == [k \in {} |-> <<>>]

\* The endpoint configurations of getEndpointConfigs, lines 228-365, that the
\* model keeps: WebhookEndpoint, CommunicationPreferencesAPI, and
\* ProductCatalogService for every further endpoint.
Path(e) == IF e = 1 THEN "/webhook" ELSE IF e = 2 THEN "/preferences" ELSE "/products"

RequiredFieldList(e) ==
    IF e = 1 THEN <<"customerID">>
    ELSE IF e = 2 THEN <<"customerID", "marketingOptIn">>
    ELSE <<"customerID", "productCategory">>

RequiredFields(e) == {RequiredFieldList(e)[i] : i \in DOMAIN RequiredFieldList(e)}

\* endpointConfig.fieldTransformations[field] applied to value at time `time`,
\* or the value itself where the endpoint has no transformer for the field
\* (line 150).  marketingOptIn, lines 329-332: status and
\* new Date().toISOString(); productCategory, lines 297-301: code, name,
\* eligibility.
TransformField(e, field, value, time) ==
    IF e = 2 /\ field = "marketingOptIn"
    THEN <<IF value = <<"true">> THEN "OPTED_IN" ELSE "OPTED_OUT", time>>
    ELSE IF e > 2 /\ field = "productCategory"
    THEN <<"LO", value[1], "true">>
    ELSE value

\* Object.assign(target, source)
Assign(target, source) ==
    [k \in DOMAIN target \cup DOMAIN source |->
        IF k \in DOMAIN source THEN source[k] ELSE target[k]]

\* delete obj[key], lines 171-172, and for comparison no delete.
DeleteKeeps(obj, key) == obj

Delete(obj, key) == [k \in DOMAIN obj \ {key} |-> obj[k]]

\* obj[key] || fallback, for a property that may be missing
PropertyOr(obj, key, fallback) == IF key \in DOMAIN obj THEN obj[key] ELSE fallback

\* typeof of a configured field mapping: a string <<name>>, or an array of
\* names.
TypeOf(v) == IF Len(v) = 1 THEN "string" ELSE "object"

\* obj[key] = value
SetProperty(obj, key, value) ==
    [k \in DOMAIN obj \cup {key} |-> IF k = key THEN value ELSE obj[k]]

\* The forEach of transformDataForEndpoint, lines 144-153, over the first n
\* required fields of endpoint e, starting from the {} of line 141.
RECURSIVE TransformFields(_, _, _, _)
TransformFields(fd, e, time, n) ==
    IF n = 0 THEN EmptyObject
    ELSE LET payload == TransformFields(fd, e, time, n - 1)
             field == RequiredFieldList(e)[n]
             targetField == PropertyOr(fieldMappings[e], field, <<field>>)
         IN IF TypeOf(targetField) = "string"
            THEN SetProperty(payload, targetField[1],
                             TransformField(e, field, fd[field], time))
            ELSE payload

\* transformDataForEndpoint, lines 136-160, of the formData object fd for endpoint
\* e at time `time`: the required fields, then the additional fields.
TransformDataForEndpoint(fd, e, time) ==
    Assign(TransformFields(fd, e, time, Len(RequiredFieldList(e))),
           heap[ConfigRef(e)])

\* The fetch call of sendToEndpoint, lines 162-200, for endpoint e with the
\* payload object: where it goes, the X-Webhook-Secret header (none for a regular
\* endpoint), the body, and the payload object after the call's deletes.
SendToEndpoint(e, payload) ==
    IF Path(e) = "/webhook"
    THEN LET stripped == Delete(Delete(payload, "webhookUrl"), "secret")
         IN [url |-> PropertyOr(payload, "webhookUrl", <<"undefined">>),
             secret |-> PropertyOr(payload, "secret", <<"">>),
             body |-> stripped]
    ELSE [url |-> <<Path(e)>>, secret |-> <<"no header">>, body |-> payload]

\* processEndpoint lines 76-86 in run e, after waitForRateLimit: validate,
\* transform, and start the fetch of sendToEndpoint with its abort timer
\* (line 164); a failed validation or a throwing transformer goes to the catch.
Attempt(e) ==
    IF formData[e] # "valid"
    THEN /\ Catch(e, IF formData[e] = "invalid" THEN "Validation failed"
                                               ELSE "transformer threw")
         /\ UNCHANGED <<attempts, deliveryFailures, requestStart>>
         /\ UNCHANGED payloadVars
    ELSE /\ attempts' = [attempts EXCEPT ![e] = @ + 1]
         /\ requestStart' = [requestStart EXCEPT ![e] = clock]
         /\ rpc' = [rpc EXCEPT ![e] = "fetch"]
         /\ deadline' = [deadline EXCEPT ![e] = clock + ConfiguredTimeoutMs]
         /\ lastError' = [lastError EXCEPT ![e] = "none"]
         /\ UNCHANGED rejection
         /\ UNCHANGED <<retryCount, deliveryFailures, backoffStart>>
         /\ LET built == TransformDataForEndpoint(heap[FormDataRef], e, clock)
                sent == SendToEndpoint(e, built)
            IN /\ heap' = [heap EXCEPT ![PayloadRef(e)] = sent.body]
               /\ request' = [request EXCEPT ![e] = sent]
               /\ payloads' = [payloads EXCEPT
                      ![e] = IF @ = <<>> THEN <<built>> ELSE <<@[1], built>>]
               /\ UNCHANGED <<additionalFields, fieldMappings>>

\* The top of the loop of processEndpoint, lines 72-74, in run e:
\* waitForRateLimit, lines 105-118, either starts a timer or sets
\* lastRequestTime and lets the attempt go on.
LoopTop(e) ==
    LET timeSinceLastRequest == clock - lastRequestTime
    IN IF timeSinceLastRequest < MinTimeBetweenRequests
       THEN /\ rpc' = [rpc EXCEPT ![e] = "rateWait"]
            /\ deadline' = [deadline EXCEPT
                   ![e] = clock + (MinTimeBetweenRequests - timeSinceLastRequest)]
            /\ lastError' = [lastError EXCEPT ![e] = "none"]
            /\ UNCHANGED rejection
            /\ UNCHANGED <<lastRequestTime, retryCount, attempts, deliveryFailures,
                           backoffStart, requestStart>>
            /\ UNCHANGED payloadVars
       ELSE /\ lastRequestTime' = clock
            /\ Attempt(e)

\* processFormData, lines 38-51, is called.  For a registered customer the map of
\* line 45 is about to start processEndpoint for each enabled endpoint, in order,
\* in one synchronous run.  Else getCustomerConfig throws: the Error of the
\* lookup is wrapped at lines 221-224 and that error again at line 50.
ProcessFormData ==
    /\ nextToStart = 0
    /\ lookupError = "none"
    /\ IF customerRegistered
       THEN /\ nextToStart' = 1
            /\ UNCHANGED lookupVars
       ELSE /\ lookupError' = Category([customerId |-> "unregistered"])
            /\ UNCHANGED <<nextToStart, customerRegistered, enabledEndpoints>>
    /\ UNCHANGED <<optionsMaxRetries, clock, lastRequestTime, formData, rpc,
                   retryCount, deadline, attempts, deliveryFailures, retries,
                   backoffStart, retryStart, requestStart, lastError,
                   rejection>>
    /\ UNCHANGED payloadVars
    /\ UNCHANGED queueVars
    /\ UNCHANGED secretVars
    /\ UNCHANGED batchVars
    /\ UNCHANGED webhookVars

\* The map of line 45 calls processEndpoint for endpoint e, which runs to its
\* first await.
StartEndpoint(e) ==
    /\ nextToStart = e
    /\ e <= enabledEndpoints
    /\ nextToStart' = e + 1
    /\ LoopTop(e)
    /\ UNCHANGED <<optionsMaxRetries, clock, formData, retries, retryStart>>
    /\ UNCHANGED queueVars
    /\ UNCHANGED secretVars
    /\ UNCHANGED batchVars
    /\ UNCHANGED webhookVars
    /\ UNCHANGED lookupVars

Started == nextToStart > enabledEndpoints

\* The timer of waitForRateLimit, lines 113-115, fires in run e; line 117.
RateWaitElapsed(e) ==
    /\ Started
    /\ rpc[e] = "rateWait"
    /\ clock >= deadline[e]
    /\ lastRequestTime' = clock
    /\ Attempt(e)
    /\ UNCHANGED <<optionsMaxRetries, clock, nextToStart, formData, retries,
                   retryStart>>
    /\ UNCHANGED queueVars
    /\ UNCHANGED secretVars
    /\ UNCHANGED batchVars
    /\ UNCHANGED webhookVars
    /\ UNCHANGED lookupVars

\* The fetch of run e answers with an ok response: sendToEndpoint returns and
\* processEndpoint returns at line 87.
FetchOk(e) ==
    /\ Started
    /\ rpc[e] = "fetch"
    /\ rpc' = [rpc EXCEPT ![e] = "resolved"]
    /\ UNCHANGED <<optionsMaxRetries, clock, lastRequestTime, nextToStart, formData,
                   retryCount, deadline, attempts, deliveryFailures, retries,
                   backoffStart, retryStart, requestStart, lastError,
                   rejection>>
    /\ UNCHANGED queueVars
    /\ UNCHANGED secretVars
    /\ UNCHANGED batchVars
    /\ UNCHANGED webhookVars
    /\ UNCHANGED lookupVars
    /\ UNCHANGED payloadVars

\* The fetch of run e is rejected or answers with a response that is not ok
\* (lines 184-186, 197-199): sendToEndpoint throws.
FetchFails(e) ==
    /\ Started
    /\ rpc[e] = "fetch"
    /\ deliveryFailures' = [deliveryFailures EXCEPT ![e] = @ + 1]
    /\ Catch(e, "request failed")
    /\ UNCHANGED <<optionsMaxRetries, clock, lastRequestTime, nextToStart, formData,
                   attempts, retries, retryStart, requestStart>>
    /\ UNCHANGED queueVars
    /\ UNCHANGED secretVars
    /\ UNCHANGED batchVars
    /\ UNCHANGED webhookVars
    /\ UNCHANGED lookupVars
    /\ UNCHANGED payloadVars

\* The abort timer of line 164 fires in run e: sendToEndpoint throws
\* 'Request timed out', lines 207-210.
FetchTimeout(e) ==
    /\ Started
    /\ rpc[e] = "fetch"
    /\ clock >= deadline[e]
    /\ deliveryFailures' = [deliveryFailures EXCEPT ![e] = @ + 1]
    /\ Catch(e, ErrorOfAbort)
    /\ UNCHANGED <<optionsMaxRetries, clock, lastRequestTime, nextToStart, formData,
                   attempts, retries, retryStart, requestStart>>
    /\ UNCHANGED queueVars
    /\ UNCHANGED secretVars
    /\ UNCHANGED batchVars
    /\ UNCHANGED webhookVars
    /\ UNCHANGED lookupVars
    /\ UNCHANGED payloadVars

\* The backoff timer of line 100 fires in run e: the loop goes round.
BackoffElapsed(e) ==
    /\ Started
    /\ rpc[e] = "backoff"
    /\ clock >= deadline[e]
    /\ retries' = [retries EXCEPT ![e] = @ + 1]
    /\ retryStart' = [retryStart EXCEPT ![e] = clock]
    /\ LoopTop(e)
    /\ UNCHANGED <<optionsMaxRetries, clock, nextToStart, formData>>
    /\ UNCHANGED queueVars
    /\ UNCHANGED secretVars
    /\ UNCHANGED batchVars
    /\ UNCHANGED webhookVars
    /\ UNCHANGED lookupVars

\* Time passes while some run waits, up to the next timer that is due.
AdvanceClock ==
    /\ Started
    /\ Waiting # {}
    /\ \A e \in Waiting : deadline[e] > clock
    /\ LET next == CHOOSE d \in {deadline[e] : e \in Waiting} :
                       \A e \in Waiting : d <= deadline[e]
       IN clock' = IF clock + TimeStepMs < next THEN clock + TimeStepMs ELSE next
    /\ UNCHANGED <<optionsMaxRetries, lastRequestTime, nextToStart, formData, rpc,
                   retryCount, deadline, attempts, deliveryFailures, retries,
                   backoffStart, retryStart, requestStart, lastError,
                   rejection>>
    /\ UNCHANGED queueVars
    /\ UNCHANGED secretVars
    /\ UNCHANGED batchVars
    /\ UNCHANGED webhookVars
    /\ UNCHANGED lookupVars
    /\ UNCHANGED payloadVars

\* ---- processBatch

\* The batchSize of the constructor's defaults, line 32.
DefaultBatchSize == 10

Submissions == 1..MaxSubmissions

\* const batchSize = this.options.batchSize || 10, line 55
BatchSize == IF optionsBatchSize = 0 THEN 10 ELSE optionsBatchSize

\* formDataArray.slice(i, i + batchSize), line 57, as the positions 1..length
\* of its elements, and for comparison a slice that takes one more.
SliceOneMore(i, end) == {s \in 1..arrayLength : i < s /\ s <= end + 1}

Slice(i, end) == {s \in 1..arrayLength : i < s /\ s <= end}

\* What a batch call leaves alone.
BatchFrame ==
    /\ UNCHANGED <<optionsBatchSize, arrayLength>>
    /\ UNCHANGED queueVars
    /\ UNCHANGED dpVars
    /\ UNCHANGED secretVars
    /\ UNCHANGED webhookVars

\* The loop of processBatch, lines 56-61, arrives at its test with i, the
\* processFormData calls being as in c: it returns, or it calls processFormData
\* for each element of the next slice (each runs to its first await) and
\* awaits the Promise.all.
BatchLoop(i, c) ==
    /\ batchStart' = i
    /\ UNCHANGED batchRejection
    /\ IF i < arrayLength
       THEN /\ calls' = [s \in Submissions |->
                            IF s \in Slice(i, i + BatchSize) THEN "pending" ELSE c[s]]
            /\ bpc' = "awaiting"
       ELSE /\ calls' = c
            /\ bpc' = "resolved"

\* processBatch, lines 54-62, is called.
ProcessBatch ==
    /\ bpc = "idle"
    /\ BatchLoop(0, calls)
    /\ BatchFrame

\* The processFormData call for element s resolves.  If it was the last one
\* of the Promise.all that processBatch awaits, the loop goes on.
FormDataResolves(s) ==
    /\ calls[s] = "pending"
    /\ LET c == [calls EXCEPT ![s] = "resolved"]
       IN IF /\ bpc = "awaiting"
             /\ \A s2 \in Slice(batchStart, batchStart + BatchSize) : c[s2] = "resolved"
          THEN BatchLoop(batchStart + BatchSize, c)
          ELSE /\ calls' = c
               /\ UNCHANGED <<batchStart, bpc, batchRejection>>
    /\ BatchFrame

\* The processFormData call for element s rejects, with the ProcessingError of
\* line 50.  The Promise.all that processBatch awaits rejects with it if it
\* is its first rejection, and so does processBatch.
FormDataRejects(s) ==
    /\ calls[s] = "pending"
    /\ calls' = [calls EXCEPT ![s] = "rejected"]
    /\ IF bpc = "awaiting"
       THEN /\ bpc' = "rejected"
            /\ batchRejection' = ProcessingError("request failed", [customerId |-> "CUST001"])
       ELSE UNCHANGED <<bpc, batchRejection>>
    /\ UNCHANGED batchStart
    /\ BatchFrame

\* A DataProcessor with options.batchSize = bs and a formDataArray of n
\* elements for processBatch.
InitBatch(bs, n) ==
    /\ optionsBatchSize = bs
    /\ arrayLength = n
    /\ batchStart = 0
    /\ calls = [s \in Submissions |-> "notStarted"]
    /\ bpc = "idle"
    /\ batchRejection = NotRejected

\* ------------------------------------------- DataProcessor, webhook variant
\* (src/src/services/dataProcessor.ts)

\* customerConfig.enabledEndpoints, in order.
WebhookEndpoints == <<"CustomerProfileAPI", "CreditCheckSystem">>

\* Object.keys(formData), in order, and the values a field may have.
WebhookFieldList == <<"personalName", "emailAddress">>

WebhookFields == {WebhookFieldList[i] : i \in DOMAIN WebhookFieldList}

FieldValues == {"good", "bad"}

NoField == "undefined"

\* A rule of fieldValidation is written as the field names that its
\* pattern.source contains, ignoring case, and the values that pattern.test
\* accepts: a pattern that names no field (as those of customerConfig lines
\* 37-43), one that names a field, and one that names both fields.
Rules ==
    {[contains |-> {}, accepts |-> {}],
     [contains |-> {"emailAddress"}, accepts |-> {"good"}],
     [contains |-> {"personalName", "emailAddress"}, accepts |-> {"good"}]}

\* The fieldValidation arrays of at most MaxRules rules.
RuleLists == UNION {[1..n -> Rules] : n \in 0..MaxRules}

\* What endpointSpecificConfig may hold for an endpoint: nothing, a disabled
\* config, an enabled one without fieldValidation, or with.
EndpointConfigs ==
    {[present |-> FALSE, enabled |-> FALSE, fieldValidation |-> <<>>],
     [present |-> TRUE, enabled |-> FALSE,
      fieldValidation |-> <<[contains |-> {"emailAddress"}, accepts |-> {}]>>]}
        \cup [present : {TRUE}, enabled : {TRUE}, fieldValidation : RuleLists]

NoEndpointConfigs ==
    [i \in DOMAIN WebhookEndpoints |->
        [present |-> FALSE, enabled |-> FALSE, fieldValidation |-> <<>>]]

\* Object.keys(formData).find(key => rule.pattern.source.toLowerCase()
\* .includes(key.toLowerCase())), lines 26-28, looking from the i-th key on.
RECURSIVE Find(_, _)
Find(rule, i) ==
    IF i > Len(WebhookFieldList) THEN NoField
    ELSE IF WebhookFieldList[i] \in rule.contains THEN WebhookFieldList[i]
    ELSE Find(rule, i + 1)

\* rule.pattern.test(value), line 38, and for comparison a test that accepts
\* everything.
TestAcceptsAll(rule, value) == TRUE

Test(rule, value) == value \in rule.accepts

NoFailure == [endpoint |-> NoField, field |-> NoField]

\* The loop over the rules of endpoint number e, lines 25-47, from rule i on:
\* the context of the first ProcessingError thrown, NoFailure if none is.
RECURSIVE ValidateRules(_, _)
ValidateRules(e, i) ==
    LET rules == endpointSpecificConfig[e].fieldValidation
    IN IF i > Len(rules) THEN NoFailure
       ELSE LET fieldName == Find(rules[i], 1)
            IN IF fieldName = NoField THEN ValidateRules(e, i + 1)
               ELSE IF ~Test(rules[i], webhookFormData[fieldName])
               THEN [endpoint |-> WebhookEndpoints[e], field |-> fieldName]
               ELSE ValidateRules(e, i + 1)

\* The loop over the enabled endpoints, lines 17-48, from endpoint number e on.
RECURSIVE ValidateEndpoints(_)
ValidateEndpoints(e) ==
    IF e > Len(WebhookEndpoints) THEN NoFailure
    ELSE LET endpointConfig == endpointSpecificConfig[e]
         IN IF ~(endpointConfig.present /\ endpointConfig.enabled)
            THEN ValidateEndpoints(e + 1)
            ELSE LET failure == ValidateRules(e, 1)
                 IN IF failure # NoFailure THEN failure
                    ELSE ValidateEndpoints(e + 1)

\* What a call of the webhook variant leaves alone.
WebhookFrame ==
    /\ UNCHANGED <<configFound, endpointSpecificConfig, webhookFormData>>
    /\ UNCHANGED queueVars
    /\ UNCHANGED dpVars
    /\ UNCHANGED secretVars
    /\ UNCHANGED batchVars

\* processFormData, lines 8-70, is called and runs to the await of line 58 or
\* to a throw: getCustomerConfig (lines 72-81), the validation, axios.post.
WebhookProcessFormData ==
    /\ wpc = "idle"
    /\ IF ~configFound
       THEN /\ wpc' = "rejected"
            /\ webhookError' = ProcessingError("Customer configuration not found",
                                               [category |-> "CONFIGURATION"])
            /\ UNCHANGED posts
       ELSE LET failure == ValidateEndpoints(1)
            IN IF failure # NoFailure
               THEN /\ wpc' = "rejected"
                    /\ webhookError' =
                           ProcessingError("Validation failed",
                                           [category |-> "VALIDATION",
                                            endpoint |-> failure.endpoint,
                                            field |-> failure.field])
                    /\ UNCHANGED posts
               ELSE /\ wpc' = "posting"
                    /\ posts' = posts + 1
                    /\ UNCHANGED webhookError
    /\ WebhookFrame

\* axios.post resolves: processFormData returns.
PostOk ==
    /\ wpc = "posting"
    /\ wpc' = "resolved"
    /\ UNCHANGED <<posts, webhookError>>
    /\ WebhookFrame

\* axios.post rejects (a response that is not 2xx, or no response): the catch of
\* lines 62-69 wraps the error.
PostFails ==
    /\ wpc = "posting"
    /\ wpc' = "rejected"
    /\ webhookError' = ProcessingError("request failed", [category |-> "PROCESSING"])
    /\ UNCHANGED posts
    /\ WebhookFrame

\* A call of the webhook variant for a customer whose config is found or not,
\* with the endpoint configs esc, and the formData fd.
InitWebhook(found, esc, fd) ==
    /\ configFound = found
    /\ endpointSpecificConfig = esc
    /\ webhookFormData = fd
    /\ wpc = "idle"
    /\ posts = 0
    /\ webhookError = NotRejected

\* ------------------------------------------------------------ SecretsService
\* (src/src/services/secretsService.ts)

SecretKeys == {"OPENAI_API_KEY", "WEBHOOK_SECRET"}
SecretValues == {"sk-1", "sk-2"}
\* crypto.randomBytes(IV_LENGTH), line 58: what a call may draw.
IVs == {"iv1", "iv2"}
\* The ttlSeconds that callers pass.
TtlSeconds == {0, 1}
\* The SecretsService clock advances in steps of half a second.
SecretTickMs == 500

None == [set |-> FALSE]
Null == "null"

\* encrypt, lines 57-74, of text under key k with the iv drawn: the JSON of iv,
\* ciphertext and authentication tag.  The ciphertext and the tag are written
\* as what determines them.
Encrypt(text, k, iv) ==
    [iv |-> iv, encrypted |-> <<"aes-256-gcm", k, iv, text>>,
     authTag |-> <<"tag", k, iv, text>>]

\* decrypt, lines 76-89, under key k: the plaintext, if ciphertext and tag were
\* made under k with the iv stored; decipher.final throws otherwise.
Decrypt(data, k) ==
    IF /\ data.encrypted[2] = k
       /\ data.encrypted[3] = data.iv
       /\ data.authTag = <<"tag", k, data.iv, data.encrypted[4]>>
    THEN data.encrypted[4]
    ELSE "decrypt throws"

\* Map.set and Map.delete
MapSet(m, key, entry) ==
    [k \in DOMAIN m \cup {key} |-> IF k = key THEN entry ELSE m[k]]

MapDelete(m, key) == [k \in DOMAIN m \ {key} |-> m[k]]

\* Date.now() > secret.expiresAt, line 41; for comparison, >=.
ExpiredAtExpiry(time, expiresAt) == time >= expiresAt

Expired(time, expiresAt) == time > expiresAt

\* What a secrets call leaves alone.
SecretsFrame ==
    /\ UNCHANGED <<encryptionKey, secretsNow>>
    /\ UNCHANGED queueVars
    /\ UNCHANGED dpVars
    /\ UNCHANGED batchVars
    /\ UNCHANGED webhookVars

\* setSecret, lines 27-33
SetSecret(key, value, ttlSeconds, iv) ==
    /\ secrets' = MapSet(secrets, key,
                         [value |-> Encrypt(value, encryptionKey, iv),
                          expiresAt |-> secretsNow + (ttlSeconds * 1000)])
    /\ stored' = [stored EXCEPT ![key] =
                      [set |-> TRUE, value |-> value, at |-> secretsNow,
                       ttlSeconds |-> ttlSeconds]]
    /\ got' = None
    /\ SecretsFrame

\* getSecret, lines 35-47
GetSecret(key) ==
    /\ IF key \notin DOMAIN secrets
       THEN /\ got' = [set |-> TRUE, key |-> key, result |-> Null]
            /\ UNCHANGED secrets
       ELSE IF Expired(secretsNow, secrets[key].expiresAt)
       THEN /\ secrets' = MapDelete(secrets, key)
            /\ got' = [set |-> TRUE, key |-> key, result |-> Null]
       ELSE /\ got' = [set |-> TRUE, key |-> key,
                       result |-> Decrypt(secrets[key].value, encryptionKey)]
            /\ UNCHANGED secrets
    /\ UNCHANGED stored
    /\ SecretsFrame

\* deleteSecret, lines 53-55
DeleteSecret(key) ==
    /\ secrets' = MapDelete(secrets, key)
    /\ stored' = [stored EXCEPT ![key] = None]
    /\ got' = None
    /\ SecretsFrame

\* Time passes.
SecretsTick ==
    /\ secretsNow < MaxSecretTicks * SecretTickMs
    /\ secretsNow' = secretsNow + SecretTickMs
    /\ got' = None
    /\ UNCHANGED <<encryptionKey, secrets, stored>>
    /\ UNCHANGED queueVars
    /\ UNCHANGED dpVars
    /\ UNCHANGED batchVars
    /\ UNCHANGED webhookVars

\* A SecretsService after construction, lines 11-25, with the encryption key k.
InitSecrets(k) ==
    /\ encryptionKey = k
    /\ secrets = [key \in {} |-> None]
    /\ secretsNow = 0
    /\ stored = [key \in SecretKeys |-> None]
    /\ got = None

\* ------------------------------------------------------------ specifications

\* The queue service, the worker pool and the calls after construction, with
\* maxConcurrent mc and maxWorkers mw.
InitQueue(mc, mw) ==
    /\ maxConcurrent = mc
    /\ maxWorkers = mw
    /\ queue = <<>>
    /\ processing = {}
    /\ workers = InitializeWorkers(mw)
    /\ now = 0
    /\ pc = [t \in Contexts |-> "idle"]
    /\ cur = [t \in Contexts |-> NoItem]
    /\ pid = [t \in Contexts |-> NoPid]
    /\ slot = [t \in Contexts |-> 0]
    /\ enqCount = 0
    /\ outcome = [d \in Calls |-> "pending"]
    /\ nDirect = 0
    /\ lastReturned = NoItem
    /\ retryTimers = {}
    /\ origin = [t \in Contexts |-> 0]
    /\ thrown = [t \in Contexts |-> FALSE]
    /\ status = NoStatus
    /\ validationIssues = [d \in Calls |-> FALSE]
    /\ claimedBy = [d \in Calls |-> <<>>]

\* The additionalFields of the customer configurations, customerConfig lines
\* 82-195: a webhookUrl and a secret for the webhook, language and timezone for
\* the preferences, market and channel for the products.
ConfiguredFields(withSecret) ==
    [e \in Endpoints |->
        IF e = 1
        THEN IF withSecret
             THEN [webhookUrl |-> <<"https://webhook.site/1">>,
                   secret |-> <<"your-webhook-secret">>]
             ELSE [webhookUrl |-> <<"https://webhook.site/1">>]
        ELSE IF e = 2
        THEN [language |-> <<"en">>, timezone |-> <<"UTC">>]
        ELSE [market |-> <<"US">>, channel |-> <<"DIRECT">>]]

\* A DataProcessor after construction with options.maxRetries = r, a submission
\* fd, and a customerId that is registered or not, with n enabled endpoints
\* and the additionalFields af configured for its endpoints; the fieldMappings
\* are still to be set.  Date.now() is far more than a rate-limit interval
\* after the initial lastRequestTime of 0.
InitConfigured(r, fd, registered, n, af) ==
    /\ optionsMaxRetries = r
    /\ clock = 60 * 1000
    /\ lastRequestTime = 0
    /\ nextToStart = 0
    /\ formData = fd
    /\ rpc = [e \in Endpoints |-> "idle"]
    /\ retryCount = [e \in Endpoints |-> 0]
    /\ deadline = [e \in Endpoints |-> 0]
    /\ attempts = [e \in Endpoints |-> 0]
    /\ deliveryFailures = [e \in Endpoints |-> 0]
    /\ retries = [e \in Endpoints |-> 0]
    /\ backoffStart = [e \in Endpoints |-> 0]
    /\ retryStart = [e \in Endpoints |-> 0]
    /\ requestStart = [e \in Endpoints |-> 0]
    /\ lastError = [e \in Endpoints |-> "none"]
    /\ rejection = NotRejected
    /\ heap = [o \in {FormDataRef} \cup {PayloadRef(e) : e \in Endpoints}
                         \cup {ConfigRef(e) : e \in Endpoints} |->
                  IF o = FormDataRef THEN Submission
                  ELSE IF o < 0 THEN af[-o]
                  ELSE EmptyObject]
    /\ additionalFields = af
    /\ request = [e \in Endpoints |-> EmptyObject]
    /\ payloads = [e \in Endpoints |-> <<>>]
    /\ customerRegistered = registered
    /\ enabledEndpoints = n
    /\ lookupError = "none"

\* The same for a customer without fieldMappings.
InitDataProcessor(r, fd, registered, n, af) ==
    /\ fieldMappings = [e \in Endpoints |-> EmptyObject]
    /\ InitConfigured(r, fd, registered, n, af)

Init ==
    /\ \E mc, mw \in 1..MaxCapacity : InitQueue(mc, mw)
    /\ InitDataProcessor(FallbackMaxRetries, [e \in Endpoints |-> "valid"], TRUE,
                         NumEndpoints, ConfiguredFields(TRUE))
    /\ InitSecrets("randomBytes")
    /\ InitBatch(DefaultBatchSize, 0)
    /\ InitWebhook(TRUE, NoEndpointConfigs, [k \in WebhookFields |-> "good"])

\* A customer with one enabled endpoint less than NumEndpoints.
InitDP ==
    /\ InitQueue(1, 1)
    /\ \E r \in 0..MaxConfiguredRetries, fd \in [Endpoints -> FormDataKinds],
          registered \in BOOLEAN :
           /\ fd[NumEndpoints] = "valid"
           /\ InitDataProcessor(r, fd, registered, NumEndpoints - 1,
                                ConfiguredFields(TRUE))
    /\ InitSecrets("randomBytes")
    /\ InitBatch(DefaultBatchSize, 0)
    /\ InitWebhook(TRUE, NoEndpointConfigs, [k \in WebhookFields |-> "good"])

\* A customer with NumEndpoints enabled endpoints and a submission that is valid
\* for each.
InitAllEndpoints ==
    /\ InitQueue(1, 1)
    /\ \E r \in 0..MaxConfiguredRetries :
           InitDataProcessor(r, [e \in Endpoints |-> "valid"], TRUE, NumEndpoints,
                             ConfiguredFields(TRUE))
    /\ InitSecrets("randomBytes")
    /\ InitBatch(DefaultBatchSize, 0)
    /\ InitWebhook(TRUE, NoEndpointConfigs, [k \in WebhookFields |-> "good"])

\* A DataProcessor with the default options, a customer with one enabled
\* endpoint less than NumEndpoints, with or without a secret configured for its
\* webhook, and a submission that is valid for each endpoint.
InitPayload ==
    /\ InitQueue(1, 1)
    /\ \E withSecret \in BOOLEAN :
           InitDataProcessor(FallbackMaxRetries, [e \in Endpoints |-> "valid"], TRUE,
                             NumEndpoints - 1, ConfiguredFields(withSecret))
    /\ InitSecrets("randomBytes")
    /\ InitBatch(DefaultBatchSize, 0)
    /\ InitWebhook(TRUE, NoEndpointConfigs, [k \in WebhookFields |-> "good"])

\* The fieldMappings a customer may configure for an endpoint, customerConfig
\* line 67 (string | string[]): none, a name for a field, and names for the
\* parts of a field as CUST001 has them for CustomerProfileAPI, lines 96-98.
FieldMappingChoices ==
    {EmptyObject,
     [customerID |-> <<"id">>],
     [customerID |-> <<"firstName", "lastName">>]}

\* A DataProcessor with the default options, a customer with one enabled
\* endpoint less than NumEndpoints and one of the fieldMappings for each, and a
\* submission that is valid for each endpoint.
InitMappings ==
    /\ InitQueue(1, 1)
    /\ \E fm \in FieldMappingChoices :
           fieldMappings = [e \in Endpoints |-> fm]
    /\ InitConfigured(FallbackMaxRetries, [e \in Endpoints |-> "valid"], TRUE,
                      NumEndpoints - 1, ConfiguredFields(TRUE))
    /\ InitSecrets("randomBytes")
    /\ InitBatch(DefaultBatchSize, 0)
    /\ InitWebhook(TRUE, NoEndpointConfigs, [k \in WebhookFields |-> "good"])

Next ==
    \/ \E t \in Calls, cust \in CustomerIDs, p \in Priorities : Enqueue(t, cust, p)
    \/ \E t \in Calls : ProcessItemDone(t)
    \/ \E t \in Calls : DrainLoop(t)
    \/ \E t \in Calls : WorkerPoolProcess(t)
    \/ \E t \in Calls : ValidateDone(t)
    \/ \E t \in Calls : TransformDone(t)
    \/ \E t \in Calls : EnrichDone(t)
    \/ \E t \in Calls : DeliverDone(t)
    \/ Tick

\* ParallelProcessingService: the queue service is private to it.
Spec == Init /\ [][Next]_vars

\* QueueService used on its own: callers enqueue, and claim with getNextItem.
NextQueue ==
    \/ \E t \in Calls, cust \in CustomerIDs, p \in Priorities : Enqueue(t, cust, p)
    \/ \E t \in Calls : ProcessItemDone(t)
    \/ GetNextItem
    \/ Tick

SpecQueue == Init /\ [][NextQueue]_vars

\* The same with the callers' submissions all of one customer.
NextClaims ==
    \/ \E t \in Calls, p \in Priorities : Enqueue(t, "CUST001", p)
    \/ \E t \in Calls : ProcessItemDone(t)
    \/ GetNextItem
    \/ Tick

SpecClaims == Init /\ [][NextClaims]_vars

\* ParallelProcessingService with a processItem that can throw, called once
\* less than NumCalls times, with the default priority of line 261.
NextRetry ==
    \/ \E t \in 1..(NumCalls - 1), cust \in CustomerIDs : Enqueue(t, cust, 1)
    \/ \E t \in Contexts : ProcessItemDone(t)
    \/ \E t \in Contexts, error \in Errors : ProcessItemFails(t, error)
    \/ \E r \in retryTimers : RetryTimerFires(r)
    \/ \E t \in Calls : DrainLoop(t)
    \/ \E t \in Calls : WorkerPoolProcess(t)
    \/ \E t \in Calls : ValidateDone(t)
    \/ \E t \in Calls : TransformDone(t)
    \/ \E t \in Calls : EnrichDone(t)
    \/ \E t \in Calls : DeliverDone(t)
    \/ Tick

SpecRetry == Init /\ [][NextRetry]_vars

\* The errors that the code of the repository constructs: none has a retryCount
\* property, so none is retried.
PlainErrors == {error \in Errors : error.retryCount = Undefined}

\* ParallelProcessingService with a processItem that can throw such errors,
\* called once less than NumCalls times.
NextFailing ==
    \/ \E t \in 1..(NumCalls - 1), cust \in CustomerIDs, p \in Priorities :
           Enqueue(t, cust, p)
    \/ \E t \in Calls : ProcessItemDone(t)
    \/ \E t \in Calls, error \in PlainErrors : ProcessItemFails(t, error)
    \/ \E t \in Calls : DrainLoop(t)
    \/ \E t \in Calls : WorkerPoolProcess(t)
    \/ \E t \in Calls : ValidateDone(t)
    \/ \E t \in Calls : TransformDone(t)
    \/ \E t \in Calls : EnrichDone(t)
    \/ \E t \in Calls : DeliverDone(t)
    \/ Tick

SpecFailing == Init /\ [][NextFailing]_vars

\* ParallelProcessingService called once less than NumCalls times for one
\* customer with the default priority of line 261, and a caller that asks for
\* the processing status at any time.
NextStatus ==
    \/ \E t \in 1..(NumCalls - 1) : Enqueue(t, "CUST001", 1)
    \/ \E t \in Calls : ProcessItemDone(t)
    \/ \E t \in Calls : DrainLoop(t)
    \/ \E t \in Calls : WorkerPoolProcess(t)
    \/ \E t \in Calls : ValidateDone(t)
    \/ \E t \in Calls : TransformDone(t)
    \/ \E t \in Calls : EnrichDone(t)
    \/ \E t \in Calls : DeliverDone(t)
    \/ Tick
    \/ GetProcessingStatus

SpecStatus == Init /\ [][NextStatus]_vars

\* A SecretsService with the key of the environment or a random one, lines
\* 18-25, and its callers.
InitSecretsService ==
    /\ InitQueue(1, 1)
    /\ InitDataProcessor(FallbackMaxRetries, [e \in Endpoints |-> "valid"], TRUE,
                         NumEndpoints, ConfiguredFields(TRUE))
    /\ \E k \in {"ENCRYPTION_KEY", "randomBytes"} : InitSecrets(k)
    /\ InitBatch(DefaultBatchSize, 0)
    /\ InitWebhook(TRUE, NoEndpointConfigs, [k \in WebhookFields |-> "good"])

NextSecrets ==
    \/ \E key \in SecretKeys, value \in SecretValues, ttl \in TtlSeconds, iv \in IVs :
           SetSecret(key, value, ttl, iv)
    \/ \E key \in SecretKeys : GetSecret(key)
    \/ \E key \in SecretKeys : DeleteSecret(key)
    \/ SecretsTick

SpecSecrets == InitSecretsService /\ [][NextSecrets]_vars

\* The event loop runs every continuation that is ready: the timers of
\* processItem and processTransformedData fire, the awaited calls of the
\* pipeline settle, and a call that was resumed runs on.
Fairness ==
    \A t \in Calls :
        /\ WF_vars(ProcessItemDone(t))
        /\ WF_vars(DrainLoop(t))
        /\ WF_vars(WorkerPoolProcess(t))
        /\ WF_vars(ValidateDone(t))
        /\ WF_vars(TransformDone(t))
        /\ WF_vars(EnrichDone(t))
        /\ WF_vars(DeliverDone(t))

FairSpec == Spec /\ Fairness

\* WorkerPool used on its own, with a validateData that may answer anything.
NextPipeline ==
    \/ \E t \in Calls : DirectProcess(t)
    \/ \E t \in Calls : ValidateDoneAnyAnswer(t)
    \/ \E t \in Calls : TransformDone(t)
    \/ \E t \in Calls : EnrichDone(t)
    \/ \E t \in Calls : DeliverDone(t)

SpecPipeline == Init /\ [][NextPipeline]_vars

\* WorkerPool used on its own: callers call process at any time.
NextPool ==
    \/ \E t \in Calls : DirectProcess(t)
    \/ \E t \in Calls : ValidateDone(t)
    \/ \E t \in Calls : TransformDone(t)
    \/ \E t \in Calls : EnrichDone(t)
    \/ \E t \in Calls : DeliverDone(t)

SpecPool == Init /\ [][NextPool]_vars

\* One DataProcessor.processFormData call.
NextDP ==
    \/ ProcessFormData
    \/ \E e \in Endpoints : StartEndpoint(e)
    \/ \E e \in Endpoints : RateWaitElapsed(e)
    \/ \E e \in Endpoints : FetchOk(e)
    \/ \E e \in Endpoints : FetchFails(e)
    \/ \E e \in Endpoints : FetchTimeout(e)
    \/ \E e \in Endpoints : BackoffElapsed(e)
    \/ AdvanceClock

SpecDP == InitDP /\ [][NextDP]_vars

\* One DataProcessor.processFormData call of a valid submission.
SpecPayload == InitPayload /\ [][NextDP]_vars

\* processBatch of a formDataArray, with an options.batchSize that is 0, small
\* or the default.
InitProcessBatch ==
    /\ InitQueue(1, 1)
    /\ InitDataProcessor(FallbackMaxRetries, [e \in Endpoints |-> "valid"], TRUE,
                         NumEndpoints, ConfiguredFields(TRUE))
    /\ InitSecrets("randomBytes")
    /\ \E bs \in 0..MaxBatchSize \cup {DefaultBatchSize}, n \in 0..MaxSubmissions :
           InitBatch(bs, n)
    /\ InitWebhook(TRUE, NoEndpointConfigs, [k \in WebhookFields |-> "good"])

\* The webhook variant of processFormData for any customer config and
\* formData.
InitWebhookVariant ==
    /\ InitQueue(1, 1)
    /\ InitDataProcessor(FallbackMaxRetries, [e \in Endpoints |-> "valid"], TRUE,
                         NumEndpoints, ConfiguredFields(TRUE))
    /\ InitSecrets("randomBytes")
    /\ InitBatch(DefaultBatchSize, 0)
    /\ \E found \in BOOLEAN, esc \in [DOMAIN WebhookEndpoints -> EndpointConfigs],
          fd \in [WebhookFields -> FieldValues] :
           InitWebhook(found, esc, fd)

NextWebhook ==
    \/ WebhookProcessFormData
    \/ PostOk
    \/ PostFails

SpecWebhook == InitWebhookVariant /\ [][NextWebhook]_vars

NextBatch ==
    \/ ProcessBatch
    \/ \E s \in Submissions : FormDataResolves(s)
    \/ \E s \in Submissions : FormDataRejects(s)

SpecBatch == InitProcessBatch /\ [][NextBatch]_vars

SpecMappings == InitMappings /\ [][NextDP]_vars

\* One DataProcessor.processFormData call for a customer with every endpoint
\* enabled.
SpecAllEndpoints == InitAllEndpoints /\ [][NextDP]_vars

\* ------------------------------------------------------------------ claims

\* Items being processed: inside QueueService.processItem, or handed to
\* WorkerPool.process and in a worker's pipeline.
InProcessItem == {t \in Calls : pc[t] = "processItem"}
InPipeline == {t \in Calls : pc[t] \in PipelinePcs}

\* Number of items removed from the queue so far.
ClaimCount == enqCount - Len(queue)

\* C1: at no time are more than maxConcurrent submissions being processed,
\* counting the items in QueueService.processItem and the items in a worker's
\* pipeline.
C1_AtMostMaxConcurrentProcessed ==
    Cardinality(InProcessItem) + Cardinality(InPipeline) <= maxConcurrent

\* C2: getProcessingCount(), the size of the in-flight set, never exceeds
\* maxConcurrent.
C2_ProcessingCountWithinCap == GetProcessingCount <= maxConcurrent

\* C2 witness: the in-flight set is at a cap of 2 while an item waits in the queue.
C2_Witness ==
    /\ maxConcurrent = 2
    /\ GetProcessingCount = maxConcurrent
    /\ GetQueueLength > 0

\* C3: the queue is sorted by non-increasing priority, and items of equal
\* priority are in the order in which they were enqueued.
C3_QueueSortedStable ==
    \A i, j \in 1..Len(queue) :
        i < j => \/ queue[i].priority > queue[j].priority
                 \/ /\ queue[i].priority = queue[j].priority
                    /\ queue[i].data < queue[j].data

\* C3 witness: after three enqueues and one claim, two items of equal priority wait.
C3_Witness ==
    /\ enqCount = 3
    /\ Len(queue) = 2
    /\ queue[1].priority = queue[2].priority

\* The item a step removes from the queue, when it removes one.
ClaimedItem ==
    IF nDirect' # nDirect
    THEN lastReturned'
    ELSE LET t == CHOOSE u \in Calls : cur'[u] # cur[u] /\ cur'[u] # NoItem
         IN cur'[t]

\* C4: an item removed from the queue is its head: nothing left in the queue has
\* a higher priority, or the same priority and an earlier enqueue; getNextItem on
\* an empty queue returns undefined and changes nothing.
C4_ClaimTakesHead ==
    [][/\ ClaimCount' > ClaimCount =>
            \A i \in 1..Len(queue') :
                \/ queue'[i].priority < ClaimedItem.priority
                \/ /\ queue'[i].priority = ClaimedItem.priority
                   /\ queue'[i].data > ClaimedItem.data
       /\ (nDirect' # nDirect /\ queue = <<>>) =>
            /\ lastReturned' = NoItem
            /\ UNCHANGED <<queue, processing, workers, pc, cur, pid, slot>>]_vars

\* C4 witness: getNextItem returned an item while a later item of the same
\* priority stays at the head of the queue.
C4_Witness ==
    /\ lastReturned # NoItem
    /\ Len(queue) > 0
    /\ queue[1].priority = lastReturned.priority
    /\ queue[1].data > lastReturned.data

\* C9: a worker is busy only while a WorkerPool.process call is running its
\* pipeline on it: every call that has returned, however its pipeline ended, has
\* marked its worker idle, and with no call in a pipeline every worker is idle.
C9_WorkerIdleAfterProcess ==
    \A w \in WorkerIds :
        workers[w] => \E t \in InPipeline : slot[t] = w

\* C9 witness: one pipeline failed validation, one failed in a later stage, one
\* delivered, every call has returned and every worker is idle.
C9_Witness ==
    /\ \E d \in Calls : outcome[d] = "validationFailed"
    /\ \E d \in Calls : outcome[d] = "pipelineError"
    /\ \E d \in Calls : outcome[d] = "delivered"
    /\ \A t \in Calls : pc[t] = "drain"
    /\ \A w \in WorkerIds : ~workers[w]

\* C10: WorkerPool.process is never called with every worker busy: no item
\* claimed from the queue ends in the 'No available workers' error.
C10_NoAvailableWorkersNeverRaised ==
    \A d \in Calls : outcome[d] # "noWorker"

\* Runs of processEndpoint whose submission passes validation and transformation,
\* so that every failure of the run is a failed delivery.
Deliverable == {e \in Endpoints : formData[e] = "valid"}

\* C5: a run whose every delivery attempt fails makes exactly maxRetries + 1
\* delivery attempts, for the configured maxRetries >= 0, and then fails.
C5_ExhaustedAfterMaxRetriesPlusOne ==
    \A e \in Deliverable :
        rpc[e] = "rejected" => attempts[e] = optionsMaxRetries + 1

\* C6: a run whose first k <= maxRetries deliveries fail and whose next one
\* succeeds resolves after exactly k + 1 delivery attempts: it does not give up
\* after k <= maxRetries failed deliveries, it resolves with one attempt more
\* than failed, and it makes no attempt after it resolved.
C6_ResolvesAfterFirstSuccess ==
    /\ [](\A e \in Deliverable :
            /\ rpc[e] = "rejected" => deliveryFailures[e] > optionsMaxRetries
            /\ rpc[e] = "resolved" => attempts[e] = deliveryFailures[e] + 1)
    /\ [][\A e \in Endpoints :
            rpc[e] = "resolved" =>
                /\ rpc'[e] = "resolved"
                /\ attempts'[e] = attempts[e]]_vars

\* C6 witness: with maxRetries = 2, a run resolved on its third delivery attempt.
C6_Witness ==
    \E e \in Endpoints :
        /\ optionsMaxRetries = 2
        /\ rpc[e] = "resolved"
        /\ deliveryFailures[e] = 2
        /\ attempts[e] = 3

\* C7: the wait before the n-th retry of a run is 1000 * 2^n ms, and the retry
\* starts only when that wait has elapsed.
C7_BackoffDoubles ==
    \A e \in Endpoints :
        /\ rpc[e] = "backoff" =>
               deadline[e] = backoffStart[e] + 1000 * Pow2(retryCount[e])
        /\ (retries[e] >= 1 /\ retries[e] = retryCount[e]) =>
               retryStart[e] >= backoffStart[e] + 1000 * Pow2(retries[e])

\* C7 witness: a third retry has started, 8 s after the third failure.
C7_Witness ==
    \E e \in Endpoints :
        /\ retries[e] = 3
        /\ retryCount[e] = 3
        /\ retryStart[e] = backoffStart[e] + 8000

\* C8: a submission that fails validation for an endpoint is not retried: the
\* retry counter stays 0, no backoff wait and no delivery attempt happen, and the
\* run fails as soon as validation has run.
C8_ValidationFailureNotRetried ==
    \A e \in Endpoints :
        formData[e] = "invalid" =>
            /\ retryCount[e] = 0
            /\ rpc[e] \in {"idle", "rateWait", "rejected"}
            /\ attempts[e] = 0

\* Call t calls WorkerPool.process in this step, directly or from the drain loop,
\* and the submission it passes.
CallsProcess(t) ==
    /\ \/ pc[t] = "gotItem"
       \/ pc[t] = "idle" /\ origin'[t] = 0
    /\ pc'[t] # pc[t]
Passed(t) == IF pc[t] = "gotItem" THEN cur[t].data ELSE t

\* C11: WorkerPool.process called while every worker is busy fails with the
\* 'No available workers' error, starts no pipeline stage for its item, and
\* leaves every busy flag as it was; a direct caller's item is never run later.
C11_NoAvailableWorkerFails ==
    [][\A t \in Calls :
          /\ (CallsProcess(t) /\ \A w \in WorkerIds : workers[w]) =>
                 /\ outcome'[Passed(t)] = "noWorker"
                 /\ pc'[t] = "drain"
                 /\ slot'[t] = 0
                 /\ workers' = workers
          /\ (outcome[t] = "noWorker" /\ origin[t] = 0) =>
                 /\ outcome'[t] = "noWorker"
                 /\ pc'[t] = "drain"]_vars

\* C11 witness: with two workers, both busy, a third call has failed with
\* 'No available workers'.
C11_Witness ==
    /\ maxWorkers = 2
    /\ \A w \in WorkerIds : workers[w]
    /\ outcome[3] = "noWorker"
    /\ pc[1] \in PipelinePcs
    /\ pc[2] \in PipelinePcs

\* C12: a processFormData call whose item has been accepted into the queue is
\* not kept waiting for any processing or delivery: it is never suspended in
\* processItem, in getNextItem or in a worker's pipeline.
C12_SubmitResolvesOnAccept ==
    \A t \in Calls : origin[t] = t => pc[t] \in {"drain", "done"}

\* C13: processFormData for a customerId without a registered CustomerConfig
\* fails with an error of category CONFIGURATION, and no endpoint run is
\* started: nothing is validated, sent or retried.
C13_UnregisteredCustomerConfigurationError ==
    ~customerRegistered =>
        /\ lookupError \in {"none", "CONFIGURATION"}
        /\ nextToStart = 0
        /\ \A e \in Endpoints :
               rpc[e] = "idle" /\ attempts[e] = 0 /\ retryCount[e] = 0

\* The retry timers pending for submission d.
PendingRetries(d) == {r \in retryTimers : r.item.data = d}

QueuedItems == {queue[i] : i \in 1..Len(queue)}
InFlightItems == {cur[t] : t \in {u \in Contexts : pc[u] = "processItem"}}

\* The item that the callback of retry timer r enqueued in this step carries the
\* failed item's submission and customer, its priority + 1 and a retry counter
\* one higher than the failed item's.
RetriedItemCounted(r) ==
    \E n \in QueuedItems' \cup InFlightItems' :
        /\ n.data = r.item.data
        /\ n.customerID = r.item.customerID
        /\ n.priority = r.item.priority + 1
        /\ RetryCounter(n) # Undefined
        /\ RetryCounter(n) = (IF RetryCounter(r.item) = Undefined
                               THEN 0 ELSE RetryCounter(r.item)) + 1

\* While a retry of a submission is pending, no item of it is queued or in flight.
FailedItemDiscarded ==
    \A r \in retryTimers :
        \A n \in QueuedItems \cup InFlightItems : n.data # r.item.data

PipelineFailures == {"validationFailed", "pipelineError", "enrichmentFailed"}

\* C17: a submission whose pipeline failed in enrichment is scheduled for a
\* re-enqueue or is back in the queue: it is not dropped.
C17_RetryableFailureRequeued ==
    \A d \in Calls :
        outcome[d] = "enrichmentFailed" =>
            \/ \E n \in QueuedItems : n.data = d
            \/ PendingRetries(d) # {}

\* Context t leaves a pipeline of the pool, or processItem, with a failure.
PipelineFailsIn(t) ==
    /\ pc[t] \in PipelinePcs
    /\ pc'[t] \notin PipelinePcs
    /\ outcome'[cur[t].data] \in PipelineFailures
ProcessItemFailsIn(t) ==
    /\ pc[t] = "processItem"
    /\ cur'[t] # cur[t]
    /\ outcome'[cur[t].data] \in {"failed", "retryScheduled"}

Terminal == {"processed", "delivered"} \cup PipelineFailures

\* C19: under fair scheduling every submission accepted by processFormData
\* eventually has a terminal outcome, and keeps it.
C19_EverySubmissionReachesOutcome ==
    /\ \A d \in Calls : (origin[d] = d) ~> (outcome[d] \in Terminal)
    /\ [][\A d \in Calls : outcome[d] \in Terminal => outcome'[d] = outcome[d]]_vars

\* C20: a processFormData call that is over, and whose own submission failed in
\* a pipeline, has rejected.
C20_RejectsWhenPipelineFails ==
    \A d \in Calls :
        (pc[d] = "done" /\ outcome[d] \in PipelineFailures) => thrown[d]

\* C21: any two delivery requests issued through one DataProcessor start at least
\* 60000 / requestsPerMinute ms apart, also when the runs of several endpoints
\* are in progress at once.
C21_RequestsSpacedByRateLimit ==
    \A e1, e2 \in Endpoints :
        (e1 # e2 /\ attempts[e1] > 0 /\ attempts[e2] > 0) =>
            \/ requestStart[e1] - requestStart[e2] >= MinTimeBetweenRequests
            \/ requestStart[e2] - requestStart[e1] >= MinTimeBetweenRequests

\* Run e leaves its fetch in this step because sendToEndpoint threw.
SendThrows(e) == rpc[e] = "fetch" /\ rpc'[e] \notin {"fetch", "resolved"}

\* C22: a fetch still pending when timeoutMs has passed is aborted, and the
\* attempt fails with 'Request timed out'; that failure is handled as any failed
\* delivery is: the attempt was counted once, the run waits the backoff of its
\* retry counter and tries again while retries remain, and else rejects with the
\* error of its last attempt.
C22_TimeoutIsFailedDelivery ==
    /\ [](\A e \in Endpoints : rpc[e] = "fetch" => clock <= deadline[e])
    /\ [][\A e \in Endpoints : SendThrows(e) =>
            /\ lastError'[e] \in {"request failed", "Request timed out"}
            /\ lastError'[e] = "Request timed out" =>
                   clock = requestStart[e] + ConfiguredTimeoutMs
            /\ attempts'[e] = attempts[e]
            /\ deliveryFailures'[e] = deliveryFailures[e] + 1
            /\ attempts[e] = deliveryFailures'[e]
            /\ retryCount'[e] = retryCount[e] + 1
            /\ IF retryCount'[e] <= MaxRetries
               THEN /\ rpc'[e] = "backoff"
                    /\ deadline'[e] = clock + 1000 * Pow2(retryCount'[e])
               ELSE rpc'[e] = "rejected"]_vars
    /\ [][\A e \in Endpoints : rpc[e] = "rejected" =>
            rpc'[e] = "rejected" /\ lastError'[e] = lastError[e]]_vars

\* C22 witness: with maxRetries = 2 a run has rejected with 'Request timed out'
\* after three delivery attempts.
C22_Witness ==
    \E e \in Endpoints :
        /\ optionsMaxRetries = 2
        /\ rpc[e] = "rejected"
        /\ lastError[e] = "Request timed out"
        /\ attempts[e] = 3
        /\ retries[e] = 2

\* C23: a submission for which a field transformer of an endpoint throws is not
\* retried: the retry counter stays 0, no backoff wait and no delivery attempt
\* happen, and the run fails as soon as the transformer has thrown.
C23_TransformFailureNotRetried ==
    \A e \in Endpoints :
        formData[e] = "untransformable" =>
            /\ retryCount[e] = 0
            /\ retries[e] = 0
            /\ rpc[e] \in {"idle", "rateWait", "rejected"}
            /\ attempts[e] = 0

WebhookRuns == {e \in Endpoints : Path(e) = "/webhook" /\ attempts[e] > 0}

\* C24: the body of every request to a webhook has neither the key secret nor
\* the key webhookUrl; the configured URL is the target of the request and the
\* configured secret, or '' without one, is its X-Webhook-Secret header; this
\* holds for the first attempt and for every retry.
C24_WebhookBodyStripped ==
    \A e \in WebhookRuns :
        /\ "secret" \notin DOMAIN request[e].body
        /\ "webhookUrl" \notin DOMAIN request[e].body
        /\ request[e].body.customerID = Submission.customerID
        /\ request[e].url = additionalFields[e].webhookUrl
        /\ request[e].secret = PropertyOr(additionalFields[e], "secret", <<"">>)

\* C24 witness: the second retry of a webhook delivery with a configured secret
\* is on its way.
C24_Witness ==
    \E e \in WebhookRuns :
        /\ "secret" \in DOMAIN additionalFields[e]
        /\ retries[e] = 2
        /\ attempts[e] = 3
        /\ rpc[e] = "fetch"

\* C25: the submitted FormData object keeps every field and every value through
\* validation, transformation, delivery and retries.
C25_FormDataNeverModified == heap[FormDataRef] = Submission

\* C25 witness: the webhook was delivered at the second attempt, after its
\* payload was stripped twice, and another run is in a retry.
C25_Witness ==
    \E e1, e2 \in Endpoints :
        /\ e1 \in WebhookRuns
        /\ rpc[e1] = "resolved"
        /\ attempts[e1] = 2
        /\ e2 \notin WebhookRuns
        /\ retries[e2] >= 1
        /\ attempts[e2] >= 2

\* C26: every run of transformDataForEndpoint for one submission, customer and
\* endpoint returns the same payload, whenever it runs.
C26_TransformIsPure ==
    \A e \in Endpoints : \A i, j \in DOMAIN payloads[e] : payloads[e][i] = payloads[e][j]

\* C27: a call of getProcessingStatus, and so of getQueueStatus, getWorkerStatus,
\* getQueueLength, getProcessingCount, getAvailableWorkers and getBusyWorkers,
\* leaves the queue, the in-flight set and every busy flag as they are, and
\* returns the length of the queue, the size of the in-flight set, and the
\* numbers of idle workers, of busy workers and of all workers.
C27_AccessorsReportWithoutEffect ==
    [][status' # status =>
        /\ queue' = queue
        /\ processing' = processing
        /\ workers' = workers
        /\ status'.queue.queueLength = Len(queue)
        /\ status'.queue.processingCount = Cardinality(processing)
        /\ status'.workers.available = Cardinality({w \in DOMAIN workers : ~workers[w]})
        /\ status'.workers.busy = Cardinality({w \in DOMAIN workers : workers[w]})
        /\ status'.workers.total = Cardinality(DOMAIN workers)]_vars

\* C27 witness: the status reported last shows an item in flight, a busy worker
\* and an idle one, and is still true.
C27_Witness ==
    /\ status.queue = [queueLength |-> 0, processingCount |-> 1]
    /\ status.workers = [available |-> 1, busy |-> 1, total |-> 2]
    /\ Len(queue) = 0
    /\ Cardinality(processing) = 1
    /\ GetBusyWorkers = 1

\* C28: the pool has maxWorkers workers in every state, each idle or busy:
\* getAvailableWorkers() + getBusyWorkers() = total = maxWorkers, and the set
\* of workers never changes.
C28_PoolSizeFixed ==
    /\ [](/\ GetAvailableWorkers + GetBusyWorkers = GetWorkerStatus.total
          /\ GetWorkerStatus.total = maxWorkers
          /\ Len(workers) = maxWorkers)
    /\ [][DOMAIN workers' = DOMAIN workers /\ maxWorkers' = maxWorkers]_vars

\* C28 witness: a pool of two workers with one busy and one idle.
C28_Witness ==
    /\ maxWorkers = 2
    /\ GetBusyWorkers = 1
    /\ GetAvailableWorkers = 1

\* What getSecret(key) is to return at time `time`: the value of the latest
\* setSecret of the key, unless there is none since the last deleteSecret or
\* the time is past its expiry.
Expected(key, time) ==
    IF stored[key].set /\ time <= stored[key].at + stored[key].ttlSeconds * 1000
    THEN stored[key].value
    ELSE Null

\* C29: getSecret(key) returns the value that the latest setSecret stored for
\* the key while the time is not past the time of the set + ttlSeconds * 1000,
\* and returns null and leaves no entry for the key once it is past, and also
\* for a key never set or deleted since.
C29_GetSecretHonoursTtl ==
    got.set =>
        /\ got.result = Expected(got.key, secretsNow)
        /\ got.result = Null => got.key \notin DOMAIN secrets

\* C29 witness: getSecret returned null for a key that was set and not deleted,
\* half a second after it expired, while the other key's value is still stored.
C29_Witness ==
    /\ got.set
    /\ got.result = Null
    /\ stored[got.key].set
    /\ secretsNow = stored[got.key].at + stored[got.key].ttlSeconds * 1000 + 500
    /\ \E k \in DOMAIN secrets : k # got.key

\* The submissions that Worker.process is delivering or has delivered.
InDelivery ==
    {cur[t].data : t \in {u \in Calls : pc[u] = "deliver"}}
        \cup {d \in Calls : outcome[d] = "delivered"}

\* C30: Worker.process runs validate, transform, enrich and deliver in this
\* order, each after the one before has succeeded: no submission is in
\* delivery or delivered whose validation reported issues or whose transform
\* or enrich step failed, and a stage is only ever followed by the next one or
\* by the end of the pipeline.
C30_StagesInOrder ==
    /\ [](\A d \in InDelivery :
            /\ ~validationIssues[d]
            /\ outcome[d] \notin PipelineFailures)
    /\ [][\A t \in Calls :
            /\ pc[t] = "validate" => pc'[t] \in {"validate", "transform", "drain"}
            /\ pc[t] = "transform" => pc'[t] \in {"transform", "enrich", "drain"}
            /\ pc[t] = "enrich" => pc'[t] \in {"enrich", "deliver", "drain"}
            /\ pc[t] = "deliver" => pc'[t] \in {"deliver", "drain"}
            /\ pc'[t] = "transform" => pc[t] \in {"validate", "transform"}
            /\ pc'[t] = "enrich" => pc[t] \in {"transform", "enrich"}
            /\ pc'[t] = "deliver" => pc[t] \in {"enrich", "deliver"}]_vars

\* The names a customer's fieldMappings give to a required field of endpoint e:
\* the configured name or names, the field's own name if there are none.
MappedNames(e, field) ==
    LET names == PropertyOr(fieldMappings[e], field, <<field>>)
    IN {names[i] : i \in DOMAIN names}

\* The time that a transformed value carries, if it carries one (the
\* timestamp of marketingOptIn, lines 329-332).
TimeOf(value) == IF Len(value) = 2 THEN value[2] ELSE 0

\* C31: the payload that transformDataForEndpoint returns for an endpoint has,
\* for every required field, an entry under the customer's mapped name of the
\* field (the field's own name if unmapped) with the endpoint's transformation
\* of the raw value (the raw value if there is none); it has every
\* additionalFields entry as configured; and it has no other entry.
C31_PayloadHasMappedFields ==
    \A e \in Endpoints : \A i \in DOMAIN payloads[e] :
        LET payload == payloads[e][i]
        IN /\ \A field \in RequiredFields(e) :
                  \E k \in MappedNames(e, field) \cap DOMAIN payload :
                      payload[k] = TransformField(e, field, Submission[field],
                                                  TimeOf(payload[k]))
           /\ \A k \in DOMAIN additionalFields[e] :
                  /\ k \in DOMAIN payload
                  /\ payload[k] = additionalFields[e][k]
           /\ DOMAIN payload \subseteq
                  DOMAIN additionalFields[e]
                      \cup UNION {MappedNames(e, field) : field \in RequiredFields(e)}

\* C32: the error that processFormData rejects with because of an endpoint run
\* is a ProcessingError with the category of its cause: VALIDATION if the
\* endpoint's validation failed, API if the endpoint answered with a response
\* that is not ok.
C32_ErrorCarriesCategory ==
    rejection # NotRejected =>
        /\ rejection.name = "ProcessingError"
        /\ rejection.originalError = "Validation failed" =>
               rejection.category = "VALIDATION"
        /\ rejection.originalError = "request failed" =>
               rejection.category = "API"

\* The processFormData calls in flight, and the batch that element s is in.
InFlight == {s \in Submissions : calls[s] = "pending"}

BatchOf(s) == (s - 1) \div BatchSize

\* C33: processBatch runs the submissions in consecutive batches of at most
\* batchSize.  At most batchSize processFormData calls are in flight; a call
\* of a batch has started only if every call of every earlier batch has
\* resolved, and the calls in flight are of one batch; processBatch is
\* rejected, with a ProcessingError, exactly if a call has rejected, and once it
\* is rejected no call is started; it resolves only when every submission has
\* resolved.
C33_BatchesInOrder ==
    /\ [](/\ Cardinality(InFlight) <= BatchSize
          /\ \A s, s2 \in Submissions :
                 calls[s] # "notStarted" /\ BatchOf(s2) < BatchOf(s) =>
                     calls[s2] = "resolved"
          /\ \A s, s2 \in InFlight : BatchOf(s) = BatchOf(s2)
          /\ \A s \in Submissions : calls[s] # "notStarted" => s <= arrayLength
          /\ bpc = "rejected" <=> \E s \in Submissions : calls[s] = "rejected"
          /\ bpc = "rejected" => batchRejection.name = "ProcessingError"
          /\ bpc = "resolved" =>
                 \A s \in 1..arrayLength : calls[s] = "resolved")
    /\ [][bpc = "rejected" =>
              /\ bpc' = "rejected"
              /\ \A s \in Submissions :
                     calls[s] = "notStarted" => calls'[s] = "notStarted"]_vars

\* C33 witness: the second batch of two is in flight after the first has
\* resolved.
C33_Witness ==
    /\ BatchSize = 2
    /\ arrayLength = 4
    /\ bpc = "awaiting"
    /\ calls[1] = "resolved" /\ calls[2] = "resolved"
    /\ InFlight = {3, 4}

\* The rules of the webhook variant that apply: those of the endpoints that have
\* an enabled config, whose pattern names a form field; and whether such a rule
\* passes.
ApplicableRules ==
    {<<e, i>> \in (DOMAIN WebhookEndpoints) \X (1..MaxRules) :
        /\ endpointSpecificConfig[e].present
        /\ endpointSpecificConfig[e].enabled
        /\ i \in DOMAIN endpointSpecificConfig[e].fieldValidation
        /\ \E k \in WebhookFields :
               k \in endpointSpecificConfig[e].fieldValidation[i].contains}

RulePasses(r) ==
    LET rule == endpointSpecificConfig[r[1]].fieldValidation[r[2]]
        field == CHOOSE k \in WebhookFields :
                     /\ k \in rule.contains
                     /\ \A j \in DOMAIN WebhookFieldList :
                            WebhookFieldList[j] \in rule.contains =>
                                \E j2 \in 1..j : WebhookFieldList[j2] = k
    IN webhookFormData[field] \in rule.accepts

\* C34: for a customer with a config, a call of the webhook variant of
\* processFormData posts once to the webhook if every applicable rule passes, and
\* else throws a ProcessingError of category VALIDATION without posting; rules
\* that name no form field and endpoints that are disabled or have no config
\* do not count.  It never posts twice.
C34_WebhookPostedOnceAfterValidation ==
    /\ posts <= 1
    /\ configFound /\ wpc # "idle" =>
           IF \A r \in ApplicableRules : RulePasses(r)
           THEN /\ posts = 1
                /\ wpc \in {"posting", "resolved", "rejected"}
                /\ wpc = "rejected" => webhookError.category = "PROCESSING"
           ELSE /\ posts = 0
                /\ wpc = "rejected"
                /\ webhookError.name = "ProcessingError"
                /\ webhookError.category = "VALIDATION"

\* C34 witness: the webhook was posted to although one endpoint has no config,
\* the other has a rule that names no field, and a field has a bad value that
\* no applicable rule looks at.
C34_Witness ==
    /\ configFound
    /\ posts = 1
    /\ wpc = "resolved"
    /\ ~endpointSpecificConfig[1].present
    /\ endpointSpecificConfig[2].enabled
    /\ \E i \in DOMAIN endpointSpecificConfig[2].fieldValidation :
           endpointSpecificConfig[2].fieldValidation[i].contains = {}
    /\ ApplicableRules # {}
    /\ webhookFormData["personalName"] = "bad"

\* The claims made so far, the enqueue calls of submission d, the items of d
\* in the queue, and the contexts that hold an item of d.
Claims == {<<d, i>> \in Calls \X (1..(1 + MaxRequeues)) : i \in DOMAIN claimedBy[d]}

EnqueuesOf(d) == {t \in Contexts : origin[t] = d}

QueuedOf(d) == {i \in DOMAIN queue : queue[i].data = d}

HoldersOf(d) == {t \in Contexts : cur[t].data = d}

\* C35: whatever the interleaving of enqueue calls and claims, an item leaves
\* the queue only by a shift of processNext or of getNextItem, once for each
\* enqueue: the items enqueued are those still queued and those claimed, in all
\* and for each submission; an item is in the hands of at most one claimer, and
\* only processNext's claim leads to processItem.
C35_ClaimedAtMostOnce ==
    /\ enqCount = Len(queue) + Cardinality(Claims)
    /\ \A d \in Calls :
           /\ Cardinality(EnqueuesOf(d)) = Cardinality(QueuedOf(d)) + Len(claimedBy[d])
           /\ Len(claimedBy[d]) <= 1
           /\ Cardinality(HoldersOf(d)) <= Len(claimedBy[d])
           /\ \A t \in HoldersOf(d) :
                  pc[t] = "processItem" /\ claimedBy[d] = <<"processNext">>
           /\ outcome[d] = "processed" => claimedBy[d] = <<"processNext">>
           /\ claimedBy[d] = <<"getNextItem">> => outcome[d] = "pending"

\* C35 witness: of three items enqueued one was claimed by processNext and is
\* in processItem, one was claimed by getNextItem, and one is queued.
C35_Witness ==
    /\ enqCount = 3
    /\ Len(queue) = 1
    /\ \E d1, d2 \in Calls :
           /\ claimedBy[d1] = <<"processNext">>
           /\ HoldersOf(d1) # {}
           /\ claimedBy[d2] = <<"getNextItem">>

\* C36: the size of the in-flight set is the number of items that processNext
\* has added and not yet deleted, that is of the items in processItem, also
\* when items of one customer are claimed in the same millisecond.
C36_InFlightSetCountsItems == Cardinality(processing) = Cardinality(InProcessItem)

C38_NothingAfterRejection ==
    [][rejection # NotRejected =>
          \A e \in Endpoints :
              /\ attempts'[e] = attempts[e]
              /\ retryCount'[e] = retryCount[e]
              /\ rpc'[e] \in {"backoff", "fetch"} => rpc'[e] = rpc[e]]_vars

\* C39: whatever the interleaving of WorkerPool.process calls, the pipeline runs
\* in progress are on different workers, each of them marked busy, and no other
\* worker is busy: the number of busy workers is the number of runs in progress.
\* A call that starts a run takes a worker that was idle.
C39_OneRunPerWorker ==
    /\ [](/\ \A t, u \in InPipeline : t # u => slot[t] # slot[u]
          /\ \A t \in InPipeline : slot[t] \in WorkerIds /\ workers[slot[t]]
          /\ GetBusyWorkers = Cardinality(InPipeline))
    /\ [][\A t \in Calls :
              t \notin InPipeline /\ t \in InPipeline' => ~workers[slot'[t]]]_vars

\* C39 witness: two runs are in progress on two workers after a third run has
\* ended and given its worker back.
C39_Witness ==
    /\ Cardinality(InPipeline) = 2
    /\ GetBusyWorkers = 2
    /\ \E d \in Calls : outcome[d] \in Terminal

\* C40: the additionalFields objects of the customer's config are after every
\* delivery and retry as they were configured, webhookUrl and secret included,
\* and every request of a webhook run goes to the URL and carries the secret of
\* the request before it.
C40_ConfigUnchangedByDelivery ==
    /\ [](\A e \in Endpoints : heap[ConfigRef(e)] = additionalFields[e])
    /\ [][\A e \in WebhookRuns :
              attempts'[e] > attempts[e] =>
                  /\ request'[e].url = request[e].url
                  /\ request'[e].secret = request[e].secret
                  /\ request'[e].url = heap'[ConfigRef(e)].webhookUrl]_vars

\* C40 witness: a webhook run has given up after its last retry, every one of
\* its requests having failed.
C40_Witness ==
    \E e \in WebhookRuns :
        /\ rpc[e] = "rejected"
        /\ attempts[e] = MaxRetries + 1
        /\ deliveryFailures[e] = attempts[e]
        /\ "webhookUrl" \in DOMAIN heap[ConfigRef(e)]

====
